---- MODULE Spec2Model ----
(***************************************************************************)
(* A model of the rich-text <-> HTML converter of takenote/keepnote        *)
(* (src/takenote/gui/richtext_html.py) and of the extension life cycle     *)
(* (src/keepnote/extension.py).                                            *)
(*                                                                         *)
(* Strings of the program are sequences of one-character strings.  A       *)
(* content stream is a sequence of events Ev(k, s, tag): k is the kind     *)
(* ("text", "anchor", "begin", "end" for tag objects, "beginstr",          *)
(* "endstr" for tag names), s the text (or the anchor's name), tag the     *)
(* tag.  A tag object is a record Tag(t, n, par); a tag NAME (read path)   *)
(* is a string, e.g. "li bullet" or "indent 2 none".                       *)
(***************************************************************************)
EXTENDS Integers, Sequences, FiniteSets, TLC

\* ------------------------------------------------------------------ bounds
MaxLevel == 2
MaxNestItems == 4
MaxUnnestEvents == 5
MaxReadEvents == 4
MaxChunk == 3
MaxDataTags == 2
MaxPars == 2
MaxTagEvents == 4
MaxNoiseEvents == 3
MaxDepends == 2
MaxWindows == 2
MaxParItems == 4

\* ----------------------------------------------------------------- helpers
Min(a, b) == IF a < b THEN a ELSE b
Max(a, b) == IF a > b THEN a ELSE b

Last(s) == s[Len(s)]
Front(s) == SubSeq(s, 1, Len(s) - 1)

\* the items of seq at the indices idx
Pick(seq, idx) == [k \in 1..Len(idx) |-> seq[idx[k]]]

\* step applied in order to the items lo..hi of seq, from the state st (the
\* loop "for item in seq: st = step(st, item)"; the range is halved so that
\* the evaluation stays shallow)
RECURSIVE Fold(_, _, _, _, _)
Fold(step(_, _), st, seq, lo, hi) ==
  IF lo > hi THEN st
  ELSE IF lo = hi THEN step(st, seq[lo])
  ELSE LET mid == (lo + hi) \div 2
           left == Fold(step, st, seq, lo, mid)
       IN IF left = left THEN Fold(step, left, seq, mid + 1, hi) ELSE st
FoldAll(step(_, _), st, seq) == Fold(step, st, seq, 1, Len(seq))
Indices(seq) == [i \in 1..Len(seq) |-> i]

Flatten(ss) == FoldAll(LAMBDA acc, x : acc \o x, <<>>, ss)

\* ----------------------------------------------------------------- strings
\* Python strings are sequences of one-character strings.
S_ol == <<"o", "l">>
S_li == <<"l", "i">>
S_li_ == <<"l", "i", " ">>
S_none == <<"n", "o", "n", "e">>
S_bullet == <<"b", "u", "l", "l", "e", "t">>
S_indent_ == <<"i", "n", "d", "e", "n", "t", " ">>
S_bold == <<"b", "o", "l", "d">>
S_italic == <<"i", "t", "a", "l", "i", "c">>
S_underline == <<"u", "n", "d", "e", "r", "l", "i", "n", "e">>
S_nowrap == <<"n", "o", "w", "r", "a", "p">>
S_size_ == <<"s", "i", "z", "e", " ">>
S_family_ == <<"f", "a", "m", "i", "l", "y", " ">>
S_fg_color_ == <<"f", "g", "_", "c", "o", "l", "o", "r", " ">>
S_bg_color_ == <<"b", "g", "_", "c", "o", "l", "o", "r", " ">>
S_font_size == <<"f", "o", "n", "t", "-", "s", "i", "z", "e">>
S_font_family == <<"f", "o", "n", "t", "-", "f", "a", "m", "i", "l", "y">>
S_text_align == <<"t", "e", "x", "t", "-", "a", "l", "i", "g", "n">>
S_color == <<"c", "o", "l", "o", "r">>
S_background_color == <<"b", "a", "c", "k", "g", "r", "o", "u", "n", "d", "-", "c", "o", "l", "o", "r">>
S_list_style_type == <<"l", "i", "s", "t", "-", "s", "t", "y", "l", "e", "-", "t", "y", "p", "e">>
S_disc == <<"d", "i", "s", "c">>
S_left == <<"l", "e", "f", "t">>
S_center == <<"c", "e", "n", "t", "e", "r">>
S_right == <<"r", "i", "g", "h", "t">>
S_fill == <<"f", "i", "l", "l">>
S_justify == <<"j", "u", "s", "t", "i", "f", "y">>
S_amp == <<"a", "m", "p">>
S_gt == <<"g", "t">>
S_lt == <<"l", "t">>
S_nbsp == <<"n", "b", "s", "p">>
S_09 == <<"0", "9">>
\* BULLET_STR = u"• ": the bullet glyph is written "*" here
BULLET_STR == <<"*", " ">>

StartsWith(s, p) == Len(s) >= Len(p) /\ SubSeq(s, 1, Len(p)) = p
From(s, i) == SubSeq(s, i, Len(s))

IsSpace(c) == c \in {" ", "\n", "\t"}
IsDigit(c) == c \in {"0", "1", "2", "3", "4", "5", "6", "7", "8", "9"}

RECURSIVE LStrip(_)
LStrip(s) == IF s # <<>> /\ IsSpace(Head(s)) THEN LStrip(Tail(s)) ELSE s
RECURSIVE RStrip(_)
RStrip(s) == IF s # <<>> /\ IsSpace(Last(s)) THEN RStrip(Front(s)) ELSE s
\* str.strip()
Strip(s) == RStrip(LStrip(s))

\* str.split(sep) for a one-character separator: always at least one part
RECURSIVE SplitAcc(_, _, _)
SplitAcc(s, sep, cur) ==
  IF s = <<>> THEN <<cur>>
  ELSE IF Head(s) = sep THEN <<cur>> \o SplitAcc(Tail(s), sep, <<>>)
  ELSE SplitAcc(Tail(s), sep, Append(cur, Head(s)))
Split(s, sep) == SplitAcc(s, sep, <<>>)

\* "%d" % n and str(n)
DigitChar(n) == <<"0", "1", "2", "3", "4", "5", "6", "7", "8", "9">>[n + 1]
RECURSIVE NatStr(_)
NatStr(n) == IF n < 10 THEN <<DigitChar(n)>> ELSE NatStr(n \div 10) \o <<DigitChar(n % 10)>>
IntStr(n) == IF n < 0 THEN <<"-">> \o NatStr(0 - n) ELSE NatStr(n)
DigitVal(c) == CHOOSE n \in 0..9 : DigitChar(n) = c
\* int(s) for a string of digits
RECURSIVE IntOfAcc(_, _)
IntOfAcc(s, acc) == IF s = <<>> THEN acc ELSE IntOfAcc(Tail(s), 10 * acc + DigitVal(Head(s)))
IntOf(s) == IntOfAcc(s, 0)

\* --------------------------------------------------------- tags and events
\* a tag object: its kind t, a number n (indent level, font size), a word par
\* (paragraph type, justification) and a string s (font family, color)
TagS(t, n, par, s) == [t |-> t, n |-> n, par |-> par, s |-> s]
Tag(t, n, par) == TagS(t, n, par, <<>>)
NoTag == Tag("", 0, "")
\* an embedded object: RichTextHorizontalRule, or RichTextImage with its size
\* (-1 for None)
AnchorObj(a, w, h) == [a |-> a, w |-> w, h |-> h]
NoAnchor == AnchorObj("", -1, -1)
RichTextHorizontalRule == AnchorObj("hr", -1, -1)
RichTextImage(w, h) == AnchorObj("img", w, h)

EvA(k, s, tag, anchor) == [k |-> k, s |-> s, tag |-> tag, anchor |-> anchor]
Ev(k, s, tag) == EvA(k, s, tag, NoAnchor)

RichTextIndentTag(n, par) == Tag("indent", n, par)
RichTextModTag(name) == Tag(name, 0, "")
RichTextBulletTag == Tag("bullet", 0, "")
RichTextParTag(kind) == Tag("p", 0, kind)
P_TAG == RichTextParTag("none")
P_BULLET_TAG == RichTextParTag("bullet")

IsIndentTag(tag) == tag.t = "indent"
IsParTag(tag) == tag.t = "p"
IsBulletTag(tag) == tag.t = "bullet"

Text(s) == Ev("text", s, NoTag)
Anchor(obj) == EvA("anchor", <<>>, NoTag, obj)
BeginStr(name) == Ev("beginstr", name, NoTag)
EndStr(name) == Ev("endstr", name, NoTag)
Begin(tag) == Ev("begin", <<>>, tag)
End(tag) == Ev("end", <<>>, tag)

\* tag_table.lookup(RichTextIndentTag.tag_name(indent)): the indent tag of a
\* level, with the default paragraph type
LookupIndent(indent) == RichTextIndentTag(indent, "none")

\* ------------------------------------------------------- nest_indent_tags
\* The local state of the generator: indent, indent_closing, what it has
\* yielded (out) and whether an assertion failed (err: the generator raised).
NestInit == [indent |-> 0, indent_closing |-> FALSE, out |-> <<>>, err |-> FALSE]

\* a variant that yields the end of the innermost level only
IndentEnds_innermost(indent, target) ==
  IF indent > target THEN <<End(LookupIndent(indent))>> ELSE <<>>

\* "while indent > target: yield end(indent); indent -= 1"
IndentEnds(indent, target) ==
  [i \in 1..Max(indent - target, 0) |-> End(LookupIndent(indent - i + 1))]

\* a variant that opens the requested level only, not the levels between
IndentBegins_direct(indent, next_indent) ==
  IF indent < next_indent THEN <<Begin(LookupIndent(next_indent))>> ELSE <<>>

\* "while indent < next_indent: indent += 1; yield begin(indent)"
IndentBegins(indent, next_indent) ==
  [i \in 1..Max(next_indent - indent, 0) |-> Begin(LookupIndent(indent + i))]

\* a variant whose branch (A) forgets to close the deeper levels
nest_closing_noA(st, item) ==
  IF ~st.indent_closing THEN st
  ELSE IF item.k = "anchor" \/ item.k = "text" THEN
    [st EXCEPT !.out = @ \o IndentEnds(st.indent, 0),
               !.indent = 0,
               !.indent_closing = FALSE]
  ELSE IF item.k = "begin" /\ IsIndentTag(item.tag) THEN
    [st EXCEPT !.indent_closing = FALSE]
  ELSE st

\* lines 64-93: an indent closing is pending and the item decides it
nest_closing(st, item) ==
  IF ~st.indent_closing THEN st
  ELSE IF item.k = "anchor" \/ item.k = "text" THEN
    [st EXCEPT !.out = @ \o IndentEnds(st.indent, 0),
               !.indent = 0,
               !.indent_closing = FALSE]
  ELSE IF item.k = "begin" THEN
    IF IsIndentTag(item.tag) THEN
      [st EXCEPT !.out = @ \o IndentEnds(st.indent, item.tag.n),
                 !.indent = Min(st.indent, item.tag.n),
                 !.indent_closing = FALSE]
    ELSE st
  ELSE st

\* a variant that yields text and anchors only
nest_yield_content(st, item) ==
  IF item.k = "begin" /\ IsIndentTag(item.tag) THEN
    IF ~(item.tag.n >= st.indent) THEN [st EXCEPT !.err = TRUE]
    ELSE [st EXCEPT !.out = @ \o IndentBegins(st.indent, item.tag.n),
                    !.indent = Max(st.indent, item.tag.n)]
  ELSE IF item.k = "end" /\ IsIndentTag(item.tag) THEN
    [st EXCEPT !.indent_closing = TRUE]
  ELSE IF item.k \in {"text", "anchor"} THEN [st EXCEPT !.out = Append(@, item)]
  ELSE st

\* lines 95-117: yield items
nest_yield(st, item) ==
  IF item.k = "begin" /\ IsIndentTag(item.tag) THEN
    IF ~(item.tag.n >= st.indent) THEN [st EXCEPT !.err = TRUE]
    ELSE [st EXCEPT !.out = @ \o IndentBegins(st.indent, item.tag.n),
                    !.indent = Max(st.indent, item.tag.n)]
  ELSE IF item.k = "end" /\ IsIndentTag(item.tag) THEN
    [st EXCEPT !.indent_closing = TRUE]
  ELSE [st EXCEPT !.out = Append(@, item)]

\* one iteration of "for item in contents"
nest_item(st, item) == nest_yield(nest_closing(st, item), item)

\* a variant that leaves the open indents open at the end of the stream
nest_finish_open(st) == st

\* lines 119-123: close all remaining indents
nest_finish(st) ==
  [st EXCEPT !.out = @ \o IndentEnds(st.indent, 0), !.indent = 0]

\* "for item in contents", until an assertion fails
NestRun(st, contents) ==
  FoldAll(LAMBDA s, item : IF s.err THEN s ELSE nest_item(s, item), st, contents)

\* the whole generator, run to exhaustion
nest_indent_tags(contents) ==
  LET st == NestRun(NestInit, contents) IN IF st.err THEN st ELSE nest_finish(st)

\* ----------------------------------------------------- unnest_indent_tags
\* The local state of the generator: indent, li_stack, what it has yielded,
\* and whether it raised (li_stack.pop() of an empty list).
UnnestInit == [indent |-> 0, li_stack |-> <<>>, out |-> <<>>, err |-> FALSE]

\* a variant that forgets the level
IndentTagStr_level1(indent, par_type) == S_indent_ \o IntStr(1) \o <<" ">> \o par_type
\* "indent %d %s" % (indent, par_type)
IndentTagStr(indent, par_type) == S_indent_ \o IntStr(indent) \o <<" ">> \o par_type

\* a variant that opens a list item without closing the one that is open
unnest_beginstr_nested(st, item) ==
  LET param == item.s IN
  IF param = S_ol THEN [st EXCEPT !.indent = @ + 1]
  ELSE IF StartsWith(param, S_li) THEN
    LET tagstr == IndentTagStr(st.indent, From(param, 4))
    IN [st EXCEPT !.out = Append(@, BeginStr(tagstr)), !.li_stack = Append(@, tagstr)]
  ELSE [st EXCEPT !.out = Append(@, item)]

\* lines 135-157
unnest_beginstr(st, item) ==
  LET param == item.s IN
  IF param = S_ol THEN [st EXCEPT !.indent = @ + 1]
  ELSE IF StartsWith(param, S_li) THEN
    LET par_type == From(param, 4)
        tagstr == IndentTagStr(st.indent, par_type)
        closing == IF Len(st.li_stack) > 0 THEN <<EndStr(Last(st.li_stack))>> ELSE <<>>
        bullet == IF par_type = S_bullet
                  THEN <<BeginStr(S_bullet), Ev("text", BULLET_STR, NoTag), EndStr(S_bullet)>>
                  ELSE <<>>
    IN [st EXCEPT !.out = @ \o closing \o <<BeginStr(tagstr)>> \o bullet,
                  !.li_stack = Append(@, tagstr)]
  ELSE [st EXCEPT !.out = Append(@, item)]

\* a variant that keeps the indent level when a list closes
unnest_endstr_keep(st, item) ==
  IF item.s = S_ol THEN st
  ELSE IF StartsWith(item.s, S_li) /\ st.li_stack # <<>> THEN
    [st EXCEPT !.out = Append(@, EndStr(IndentTagStr(st.indent, From(item.s, 4)))),
               !.li_stack = Front(@)]
  ELSE [st EXCEPT !.out = Append(@, item)]

\* lines 159-176
unnest_endstr(st, item) ==
  LET param == item.s IN
  IF param = S_ol THEN [st EXCEPT !.indent = @ - 1]
  ELSE IF StartsWith(param, S_li) THEN
    IF st.li_stack = <<>> THEN [st EXCEPT !.err = TRUE]
    ELSE
      LET par_type == From(param, 4)
          stack == Front(st.li_stack)
          resume == IF Len(stack) > 0 THEN <<BeginStr(Last(stack))>> ELSE <<>>
      IN [st EXCEPT !.out = @ \o <<EndStr(IndentTagStr(st.indent, par_type))>> \o resume,
                    !.li_stack = stack]
  ELSE [st EXCEPT !.out = Append(@, item)]

\* one iteration of "for item in contents"
unnest_item(st, item) ==
  IF item.k = "beginstr" THEN unnest_beginstr(st, item)
  ELSE IF item.k = "endstr" THEN unnest_endstr(st, item)
  ELSE [st EXCEPT !.out = Append(@, item)]

\* "for item in contents", until li_stack.pop() raises
UnnestRun(st, contents) ==
  FoldAll(LAMBDA s, item : IF s.err THEN s ELSE unnest_item(s, item), st, contents)

\* the whole generator, run to exhaustion
unnest_indent_tags(contents) == UnnestRun(UnnestInit, contents)

\* -------------------------------------------------------- find_paragraphs
\* The local state of the generator.  j is the loop variable of
\* "for j, c in enumerate(text)" as a 1-based index, 0 while it is unbound;
\* it keeps its value from one text event to the next.
FindParInit ==
  [within_par |-> FALSE, others |-> <<>>, par_type |-> "none", par_stack |-> <<>>,
   j |-> 0, out |-> <<>>, err |-> FALSE]

\* pars = {"none": P_TAG, "bullet": P_BULLET_TAG}
pars(par_type) == IF par_type = "bullet" THEN P_BULLET_TAG ELSE P_TAG

\* "if not within_par: within_par = True; yield begin; par_stack.append"
fp_open(st) ==
  IF st.within_par THEN st
  ELSE [st EXCEPT !.within_par = TRUE,
                  !.out = Append(@, Begin(pars(st.par_type))),
                  !.par_stack = Append(@, pars(st.par_type))]

\* a variant that empties others without yielding them
fp_flush_drop(st) == [st EXCEPT !.others = <<>>]

\* "for item2 in others: yield item2; others = []"
fp_flush(st) == [st EXCEPT !.out = @ \o st.others, !.others = <<>>]

\* lines 210-220: the loop over the characters of text, from index j on, with
\* i the start of the pending piece; gives the state and the final i
RECURSIVE fp_chars(_, _, _, _)
fp_chars(st, text, i, j) ==
  IF j > Len(text) THEN [st |-> st, i |-> i]
  ELSE
    LET s1 == fp_open(st) IN
    IF text[j] = "\n" THEN
      fp_chars([s1 EXCEPT !.out = @ \o <<Ev("text", SubSeq(text, i, j), NoTag),
                                          End(Last(s1.par_stack))>>,
                          !.par_stack = Front(@),
                          !.within_par = FALSE],
               text, j + 1, j + 1)
    ELSE fp_chars(s1, text, i, j + 1)

\* lines 196-228
fp_text(st, item) ==
  LET text == item.s
      s1 == fp_open(fp_flush(st))
      r == fp_chars(s1, text, 1, 1)
      s2 == r.st
      jl == IF Len(text) > 0 THEN Len(text) ELSE st.j
  IN IF jl = 0 THEN [s2 EXCEPT !.err = TRUE]
     ELSE IF r.i <= jl THEN
       LET s3 == fp_open(s2) IN
       [s3 EXCEPT !.out = Append(@, Ev("text", SubSeq(text, r.i, Min(jl, Len(text))), NoTag)),
                  !.j = jl]
     ELSE [s2 EXCEPT !.j = jl]

\* lines 230-243
fp_anchor(st, item) ==
  LET s1 == fp_open(fp_flush(st)) IN [s1 EXCEPT !.out = Append(@, item)]

\* lines 246-253
fp_other(st, item) ==
  [st EXCEPT !.par_type = IF item.k = "begin" /\ IsIndentTag(item.tag)
                          THEN item.tag.par ELSE @,
             !.others = Append(@, item)]

\* one iteration of "for item in contents"
fp_item(st, item) ==
  IF item.k = "text" THEN fp_text(st, item)
  ELSE IF item.k = "anchor" THEN fp_anchor(st, item)
  ELSE fp_other(st, item)

\* lines 255-259
fp_finish(st) ==
  LET s1 == IF st.within_par
            THEN [st EXCEPT !.out = Append(@, End(Last(st.par_stack))),
                            !.par_stack = Front(@)]
            ELSE st
  IN [s1 EXCEPT !.out = @ \o s1.others]

\* "for item in contents", until the loop raises
FindParRun(st, contents) ==
  FoldAll(LAMBDA s, item : IF s.err THEN s ELSE fp_item(s, item), st, contents)

\* the whole generator, run to exhaustion
find_paragraphs(contents) ==
  LET st == FindParRun(FindParInit, contents) IN IF st.err THEN st ELSE fp_finish(st)

\* --------------------------------------------------------- normalize_tags
\* takenote.gui.textbuffer_tools.normalize_tags: the result nests like a
\* stack.  A tag that ends while tags opened after it are still open has
\* those closed before it and reopened after it; a stable tag (Indent,
\* Paragraph) that begins while a tag is open that ends inside its span has
\* that tag closed before it and reopened inside it.  (An end of a tag that
\* is not open does not occur in the streams of the write path.)
is_stable_tag(tag) == IsIndentTag(tag) \/ IsParTag(tag)

\* tags of the open stack, top first, down to the deepest one of closing
RECURSIVE NormToClose(_, _)
NormToClose(open_stack, closing) ==
  IF open_stack = <<>> \/ ~(\E i \in 1..Len(open_stack) : open_stack[i] \in closing)
  THEN <<>>
  ELSE <<Last(open_stack)>> \o NormToClose(Front(open_stack), closing \ {Last(open_stack)})

\* _normalize_close: [out, open_stack] after closing the tags of closing
normalize_close(open_stack, closing) ==
  LET closed == NormToClose(open_stack, closing)
      kept == SubSeq(open_stack, 1, Len(open_stack) - Len(closed))
      rev == [i \in 1..Len(closed) |-> closed[Len(closed) - i + 1]]
      reopen == SelectSeq(rev, LAMBDA t : t \notin closing)
  IN [out |-> [i \in 1..Len(closed) |-> End(closed[i])]
              \o [i \in 1..Len(reopen) |-> Begin(reopen[i])],
      open_stack |-> kept \o reopen]

\* the tags that end after item i of contents, before tag itself ends
WithinCloses(contents, i, tag) ==
  {contents[j].tag : j \in {j \in (i + 1)..Len(contents) :
       /\ contents[j].k = "end"
       /\ \A m \in (i + 1)..j : ~(contents[m].k = "end" /\ contents[m].tag = tag)}}

IsOpen(open_stack, tag) == \E i \in 1..Len(open_stack) : open_stack[i] = tag

\* one item of the stream; st holds the stack of open tags and the output
norm_item(st, contents, i) ==
  LET item == contents[i]
      open_stack == st.open_stack
  IN IF item.k = "begin" THEN
       IF is_stable_tag(item.tag) THEN
         LET inside == {t \in WithinCloses(contents, i, item.tag) : IsOpen(open_stack, t)}
             c == normalize_close(open_stack, inside)
             reopen == SelectSeq(open_stack, LAMBDA t : t \in inside)
         IN [out |-> st.out \o c.out \o <<item>> \o [k \in 1..Len(reopen) |-> Begin(reopen[k])],
             open_stack |-> c.open_stack \o <<item.tag>> \o reopen]
       ELSE [out |-> Append(st.out, item), open_stack |-> Append(open_stack, item.tag)]
     ELSE IF item.k = "end" THEN
       IF IsOpen(open_stack, item.tag) THEN
         LET c == normalize_close(open_stack, {item.tag})
         IN [out |-> st.out \o c.out, open_stack |-> c.open_stack]
       ELSE st
     ELSE [st EXCEPT !.out = Append(@, item)]

NormRun(st, contents) ==
  FoldAll(LAMBDA s, i : norm_item(s, contents, i), st, Indices(contents))

normalize_tags(contents) == NormRun([out |-> <<>>, open_stack |-> <<>>], contents).out

\* -------------------------------------------------------------------- DOM
\* takenote.gui.textbuffer_tools: TextBufferDom, TextDom, AnchorDom, TagDom,
\* TagNameDom.  A tree is a sequence of nodes, node 1 the root; a node holds
\* the ids of its children in order and the id of its parent (0: none).  A
\* node taken out of the tree stays in the sequence, unreachable.
Node(kind, text, tag, anchor) ==
  [kind |-> kind, text |-> text, tag |-> tag, anchor |-> anchor,
   ch |-> <<>>, parent |-> 0]
TextDom(text) == Node("text", text, NoTag, NoAnchor)
AnchorDom(anchor) == Node("anchor", <<>>, NoTag, anchor)
TagDom(tag) == Node("tag", <<>>, tag, NoAnchor)
\* TagNameDom(tagname): the name is kept in text
TagNameDom(tagname) == Node("tagname", tagname, NoTag, NoAnchor)
\* LI_TAG = RichTextTag("li"); LiHtmlTagDom(kind) is a TagDom of it
LiHtmlTagDom(kind) == TagDom(Tag("li", 0, kind))
EmptyDom == <<Node("root", <<>>, NoTag, NoAnchor)>>
Root == 1

IsTextDom(d, n) == n # 0 /\ d[n].kind = "text"
IsAnchorDom(d, n) == n # 0 /\ d[n].kind = "anchor"
IsTagDom(d, n) == n # 0 /\ d[n].kind = "tag"
IsTagNameDom(d, n) == n # 0 /\ d[n].kind = "tagname"
IsLiHtmlTagDom(d, n) == IsTagDom(d, n) /\ d[n].tag.t = "li"

IndexOf(seq, x) == CHOOSE i \in 1..Len(seq) : seq[i] = x

first_child(d, n) == IF d[n].ch = <<>> THEN 0 ELSE Head(d[n].ch)
last_child(d, n) == IF d[n].ch = <<>> THEN 0 ELSE Last(d[n].ch)
is_leaf(d, n) == d[n].ch = <<>>
prev_sibling(d, n) ==
  LET sibs == d[d[n].parent].ch
      i == IndexOf(sibs, n)
  IN IF i = 1 THEN 0 ELSE sibs[i - 1]

\* a new node; its id is Len(d) + 1
AddNode(d, node) == Append(d, node)
NewId(d) == Len(d) + 1

append_child(d, p, c) ==
  [d EXCEPT ![p].ch = Append(@, c), ![c].parent = p]
insert_before(d, p, ref, c) ==
  LET sibs == d[p].ch
      i == IndexOf(sibs, ref)
  IN [d EXCEPT ![p].ch = SubSeq(sibs, 1, i - 1) \o <<c>> \o SubSeq(sibs, i, Len(sibs)),
               ![c].parent = p]
remove(d, c) ==
  LET p == d[c].parent
  IN [d EXCEPT ![p].ch = SelectSeq(@, LAMBDA x : x # c), ![c].parent = 0]
replace_child(d, p, old, new) ==
  LET sibs == d[p].ch
      i == IndexOf(sibs, old)
  IN [d EXCEPT ![p].ch = SubSeq(sibs, 1, i - 1) \o <<new>> \o SubSeq(sibs, i + 1, Len(sibs)),
               ![old].parent = 0,
               ![new].parent = p]

\* TextBufferDom(contents): build the tree of a stream that nests
\* one item of the stream; st holds the tree and the node that is open
dom_build_item(st, item) ==
  LET d == st.d
      ptr == st.ptr
      id == NewId(d)
  IN IF item.k = "text" THEN
       [st EXCEPT !.d = append_child(AddNode(d, TextDom(item.s)), ptr, id)]
     ELSE IF item.k = "anchor" THEN
       [st EXCEPT !.d = append_child(AddNode(d, AnchorDom(item.anchor)), ptr, id)]
     ELSE IF item.k = "begin" THEN
       [d |-> append_child(AddNode(d, TagDom(item.tag)), ptr, id), ptr |-> id]
     ELSE IF item.k = "beginstr" THEN
       [d |-> append_child(AddNode(d, TagNameDom(item.s)), ptr, id), ptr |-> id]
     ELSE [st EXCEPT !.ptr = d[ptr].parent]
DomBuild(d, ptr, contents) == FoldAll(dom_build_item, [d |-> d, ptr |-> ptr], contents).d
TextBufferDom(contents) == DomBuild(EmptyDom, Root, contents)

\* dom.get_contents(): the stream of a tree
RECURSIVE DomContents(_, _), NodeContents(_, _)
NodeContents(d, n) ==
  IF d[n].kind = "text" THEN <<Ev("text", d[n].text, NoTag)>>
  ELSE IF d[n].kind = "anchor" THEN <<Anchor(d[n].anchor)>>
  ELSE IF d[n].kind = "tag" THEN
    <<Begin(d[n].tag)>> \o DomContents(d, d[n].ch) \o <<End(d[n].tag)>>
  ELSE <<BeginStr(d[n].text)>> \o DomContents(d, d[n].ch) \o <<EndStr(d[n].text)>>
DomContents(d, ids) == FoldAll(LAMBDA acc, n : acc \o NodeContents(d, n), <<>>, ids)
get_contents(d) == DomContents(d, d[Root].ch)

\* ------------------------------------------------------------ HTML reader
\* The state of an HtmlBuffer while it reads: _dom, _dom_ptr, _tag_stack,
\* _newline, _within_body, _partial; err names the exception a callback
\* raised ("" while none has).
ReaderInit(partial) ==
  [dom |-> EmptyDom, dom_ptr |-> Root,
   tag_stack |-> <<[tag |-> "None", ptr |-> Root]>>,
   newline |-> FALSE, within_body |-> FALSE, partial |-> partial, err |-> ""]

\* _html2buffer_tag
html2buffer_tag(htmltag) ==
  CASE htmltag = "b" -> S_bold
    [] htmltag = "i" -> S_italic
    [] htmltag = "u" -> S_underline
    [] htmltag = "nobr" -> S_nowrap
    [] OTHER -> <<>>
\* _justify
justify == {S_left, S_center, S_right, S_fill, S_justify}
\* _entity2char, _charref2char; "" for a name they do not hold
entity2char(name) ==
  CASE name = S_amp -> <<"&">>
    [] name = S_gt -> <<">">>
    [] name = S_lt -> <<"<">>
    [] name = S_nbsp -> <<" ">>
    [] OTHER -> <<>>
charref2char(name) == IF name = S_09 THEN <<"\t">> ELSE <<>>

\* lines 391-397
append_text(rd, text) ==
  IF Len(text) > 0 THEN
    LET last == last_child(rd.dom, rd.dom_ptr) IN
    IF IsTextDom(rd.dom, last)
    THEN [rd EXCEPT !.dom[last].text = @ \o text]
    ELSE [rd EXCEPT !.dom = append_child(AddNode(rd.dom, TextDom(text)),
                                         rd.dom_ptr, NewId(rd.dom))]
  ELSE rd

\* "tag = TagNameDom(tagstr); self._dom_ptr.append_child(tag); self._dom_ptr = tag"
open_tagname(rd, tagstr) ==
  [rd EXCEPT !.dom = append_child(AddNode(rd.dom, TagNameDom(tagstr)),
                                  rd.dom_ptr, NewId(rd.dom)),
             !.dom_ptr = NewId(rd.dom)]

\* a variant that takes a shorthand as it is, without doubling its digits
parse_color_plain(color) ==
  IF StartsWith(color, <<"#">>) /\ Len(color) \in {4, 7} THEN color ELSE <<>>

\* lines 436-442 and 448-454: the color value of a declaration, "" for none
parse_color(color) ==
  IF StartsWith(color, <<"#">>) THEN
    LET c2 == IF Len(color) = 4
              THEN <<color[1], color[2], color[2], color[3], color[3], color[4], color[4]>>
              ELSE color
    IN IF Len(c2) = 7 THEN c2 ELSE <<>>
  ELSE <<>>

\* lines 405-458: the tag name of one statement of a style attribute
\* (tagstr, <<>> for None) or the exception it raises
style_statement(stmt) ==
  LET statement == Strip(stmt)
      parts == Split(statement, ":")
      ok(tagstr) == [tagstr |-> tagstr, err |-> ""]
      raise(e) == [tagstr |-> <<>>, err |-> e]
  IN IF StartsWith(statement, S_font_size) THEN
       IF Len(parts) < 2 THEN raise("IndexError")
       ELSE LET digits == SelectSeq(parts[2], IsDigit) IN
            IF digits = <<>> THEN raise("ValueError")
            ELSE ok(S_size_ \o IntStr(IntOf(digits)))
     ELSE IF StartsWith(statement, S_font_family) THEN
       IF Len(parts) < 2 THEN raise("IndexError")
       ELSE ok(S_family_ \o Strip(parts[2]))
     ELSE IF StartsWith(statement, S_text_align) THEN
       IF Len(parts) < 2 THEN raise("IndexError")
       ELSE LET align == Strip(parts[2]) IN
            IF align \notin justify THEN raise("HtmlError")
            ELSE IF align = S_justify THEN ok(S_fill) ELSE ok(align)
     ELSE IF StartsWith(statement, S_color) THEN
       IF Len(parts) < 2 THEN raise("IndexError")
       ELSE LET c == parse_color(Strip(parts[2])) IN
            IF c = <<>> THEN ok(<<>>) ELSE ok(S_fg_color_ \o c)
     ELSE IF StartsWith(statement, S_background_color) THEN
       IF Len(parts) < 2 THEN raise("IndexError")
       ELSE LET c == parse_color(Strip(parts[2])) IN
            IF c = <<>> THEN ok(<<>>) ELSE ok(S_bg_color_ \o c)
     ELSE ok(<<>>)

\* lines 400-464: "for statement in stylestr.split(';')"
RECURSIVE parse_statements(_, _)
parse_statements(rd, statements) ==
  IF statements = <<>> \/ rd.err # "" THEN rd
  ELSE
    LET r == style_statement(Head(statements)) IN
    IF r.err # "" THEN [rd EXCEPT !.err = r.err]
    ELSE IF r.tagstr # <<>> THEN parse_statements(open_tagname(rd, r.tagstr), Tail(statements))
    ELSE parse_statements(rd, Tail(statements))
parse_style(rd, stylestr) == parse_statements(rd, Split(stylestr, ";"))

\* lines 529-534 and 539-544: "for key, value in attrs: if key == 'style'"
RECURSIVE parse_style_attrs(_, _)
parse_style_attrs(rd, attrs) ==
  IF attrs = <<>> \/ rd.err # "" THEN rd
  ELSE IF Head(attrs).key = "style"
    THEN parse_style_attrs(parse_style(rd, Head(attrs).value), Tail(attrs))
    ELSE parse_style_attrs(rd, Tail(attrs))

\* int(value) succeeds: value is a string of digits
IsIntLiteral(value) == value # <<>> /\ \A i \in 1..Len(value) : IsDigit(value[i])

\* lines 467-497: the image of an img tag; a width or height that does not
\* parse is ignored (stays None, -1)
RECURSIVE parse_image_attrs(_, _, _)
parse_image_attrs(attrs, width, height) ==
  IF attrs = <<>> THEN RichTextImage(width, height)
  ELSE
    LET a == Head(attrs) IN
    IF a.key = "width" THEN
      parse_image_attrs(Tail(attrs),
                        IF IsIntLiteral(a.value) THEN IntOf(a.value) ELSE width, height)
    ELSE IF a.key = "height" THEN
      parse_image_attrs(Tail(attrs), width,
                        IF IsIntLiteral(a.value) THEN IntOf(a.value) ELSE height)
    ELSE parse_image_attrs(Tail(attrs), width, height)
parse_image(attrs) == parse_image_attrs(attrs, -1, -1)

\* lines 581-587: the statements of an li's style attribute; gives the
\* paragraph type, or "ValueError" when a statement does not unpack in two
RECURSIVE li_statements(_, _)
li_statements(statements, par_type) ==
  IF statements = <<>> THEN par_type
  ELSE
    LET parts == Split(Head(statements), ":") IN
    IF Len(parts) # 2 THEN "ValueError"
    ELSE IF Strip(parts[1]) = S_list_style_type /\ Strip(parts[2]) = S_disc
      THEN li_statements(Tail(statements), "bullet")
      ELSE li_statements(Tail(statements), par_type)

\* lines 577-587: "for key, value in attrs"
RECURSIVE li_par_type(_, _)
li_par_type(attrs, par_type) ==
  IF attrs = <<>> \/ par_type = "ValueError" THEN par_type
  ELSE IF Head(attrs).key = "style"
    THEN li_par_type(Tail(attrs), li_statements(Split(Head(attrs).value, ";"), par_type))
    ELSE li_par_type(Tail(attrs), par_type)

\* lines 500-595
handle_starttag(rd, htmltag, attrs) ==
  LET r0 == [rd EXCEPT !.newline = FALSE,
                       !.tag_stack = Append(@, [tag |-> htmltag, ptr |-> rd.dom_ptr])]
  IN IF htmltag = "html" THEN r0
     ELSE IF htmltag = "body" THEN [r0 EXCEPT !.within_body = TRUE]
     ELSE IF html2buffer_tag(htmltag) # <<>> THEN open_tagname(r0, html2buffer_tag(htmltag))
     ELSE IF htmltag = "span" \/ htmltag = "div" THEN parse_style_attrs(r0, attrs)
     ELSE IF htmltag = "p" THEN append_text(r0, <<"\n">>)
     ELSE IF htmltag = "br" THEN [append_text(r0, <<"\n">>) EXCEPT !.newline = TRUE]
     ELSE IF htmltag = "hr" THEN
       LET r1 == append_text(r0, <<"\n">>)
           r2 == [r1 EXCEPT !.dom = append_child(AddNode(r1.dom, AnchorDom(RichTextHorizontalRule)),
                                                 r1.dom_ptr, NewId(r1.dom))]
       IN append_text(r2, <<"\n">>)
     ELSE IF htmltag = "img" THEN
       [r0 EXCEPT !.dom = append_child(AddNode(r0.dom, AnchorDom(parse_image(attrs))),
                                       r0.dom_ptr, NewId(r0.dom))]
     ELSE IF htmltag = "ul" \/ htmltag = "ol" THEN open_tagname(r0, S_ol)
     ELSE IF htmltag = "li" THEN
       LET par_type == li_par_type(attrs, "none") IN
       IF par_type = "ValueError" THEN [r0 EXCEPT !.err = "ValueError"]
       ELSE open_tagname(r0, S_li_ \o (IF par_type = "bullet" THEN S_bullet ELSE S_none))
     ELSE r0

\* lines 619-625: pop the stack down to and including the entry of htmltag,
\* or until it is empty
RECURSIVE pop_tag_stack(_, _)
pop_tag_stack(rd, htmltag) ==
  IF rd.tag_stack = <<>> THEN rd
  ELSE
    LET top == Last(rd.tag_stack)
        r1 == [rd EXCEPT !.tag_stack = Front(@), !.dom_ptr = top.ptr]
    IN IF top.tag = htmltag THEN r1 ELSE pop_tag_stack(r1, htmltag)

\* lines 599-625
handle_endtag(rd, htmltag) ==
  IF ~rd.partial /\ (htmltag \in {"html", "body"} \/ ~rd.within_body) THEN rd
  ELSE
    LET r1 == [rd EXCEPT !.newline = IF htmltag \in {"ul", "ol", "li"} THEN TRUE
                                     ELSE IF htmltag # "br" THEN FALSE ELSE @]
        r2 == IF htmltag = "p" THEN append_text(r1, <<"\n">>) ELSE r1
    IN pop_tag_stack(r2, htmltag)

\* re.sub("^\n[\n ]*", "", data)
RECURSIVE DropNlSp(_)
DropNlSp(data) ==
  IF data # <<>> /\ Head(data) \in {"\n", " "} THEN DropNlSp(Tail(data)) ELSE data
\* a variant that drops a leading run whatever it begins with: "^[\n ]*"
sub_leading_run(data) == DropNlSp(data)
sub_leading_newline(data) ==
  IF data # <<>> /\ Head(data) = "\n" THEN DropNlSp(Tail(data)) ELSE data
\* re.sub("[\n ]+", " ", data)
RECURSIVE sub_whitespace(_)
sub_whitespace(data) ==
  IF data = <<>> THEN <<>>
  ELSE IF Head(data) \in {"\n", " "} THEN <<" ">> \o sub_whitespace(DropNlSp(data))
  ELSE <<Head(data)>> \o sub_whitespace(Tail(data))

\* lines 635-640: the text that handle_data appends for a chunk
collapse_data(newline, data) ==
  IF newline THEN sub_whitespace(sub_leading_newline(data)) ELSE sub_whitespace(data)

\* lines 629-643
handle_data(rd, data) ==
  IF ~rd.partial /\ ~rd.within_body THEN rd
  ELSE
    LET text == collapse_data(rd.newline, data)
        r1 == [rd EXCEPT !.newline = FALSE]
    IN IF Len(text) > 0 THEN append_text(r1, text) ELSE r1

\* lines 646-650
handle_entityref(rd, name) ==
  IF ~rd.partial /\ ~rd.within_body THEN rd ELSE append_text(rd, entity2char(name))
\* lines 653-657
handle_charref(rd, name) ==
  IF ~rd.partial /\ ~rd.within_body THEN rd ELSE append_text(rd, charref2char(name))

\* lines 369-388: walk(node) and its loop over the children
RECURSIVE walk_read(_, _), walk_read_list(_, _)
walk_read_always(d, n) ==
  LET d1 == IF IsTagNameDom(d, n) /\ d[n].text = S_ol /\ prev_sibling(d, n) # 0
            THEN insert_before(AddNode(d, TextDom(<<"\n">>)), d[n].parent, n, NewId(d))
            ELSE d
      d2 == IF IsTagNameDom(d1, n) /\ StartsWith(d1[n].text, S_li)
            THEN append_child(AddNode(d1, TextDom(<<"\n">>)), n, NewId(d1))
            ELSE d1
  IN walk_read_list(d2, d2[n].ch)
\* lines 372-387: walk(node)
walk_read(d, n) ==
  LET d1 == IF IsTagNameDom(d, n) /\ d[n].text = S_ol /\ prev_sibling(d, n) # 0
            THEN insert_before(AddNode(d, TextDom(<<"\n">>)), d[n].parent, n, NewId(d))
            ELSE d
      last == last_child(d1, n)
      d2 == IF IsTagNameDom(d1, n) /\ StartsWith(d1[n].text, S_li)
               /\ ~(IsTagNameDom(d1, last) /\ d1[last].text = S_ol)
            THEN append_child(AddNode(d1, TextDom(<<"\n">>)), n, NewId(d1))
            ELSE d1
  IN walk_read_list(d2, d2[n].ch)
walk_read_list(d, ids) == FoldAll(LAMBDA d2, n : walk_read(d2, n), d, ids)
process_dom_read(d) == walk_read(d, Root)

\* ---------------------------------------------------------- parser events
\* What HTMLParser calls back with: a start tag, an end tag, a start-end tag
\* (<br/>), character data, an entity reference, a character reference or a
\* declaration (<!DOCTYPE ...>, which HtmlBuffer does not handle).  The
\* writer's output is a sequence of the same records, with one "chr" record
\* for each character written outside a tag.
PEv(k, name, attrs, s) == [k |-> k, name |-> name, attrs |-> attrs, s |-> s]
StartTag(name, attrs) == PEv("start", name, attrs, <<>>)
EndTag(name) == PEv("end", name, <<>>, <<>>)
StartEndTag(name, attrs) == PEv("startend", name, attrs, <<>>)
Data(s) == PEv("data", "", <<>>, s)
EntityRef(s) == PEv("entityref", "", <<>>, s)
CharRef(s) == PEv("charref", "", <<>>, s)
Decl == PEv("decl", "", <<>>, <<>>)
Chr(c) == PEv("chr", "", <<>>, <<c>>)
Attr(key, value) == [key |-> key, value |-> value]
Chars(text) == [i \in 1..Len(text) |-> Chr(text[i])]

\* one callback; handle_startendtag is handle_starttag then handle_endtag
reader_event(rd, e) ==
  IF e.k = "start" THEN handle_starttag(rd, e.name, e.attrs)
  ELSE IF e.k = "end" THEN handle_endtag(rd, e.name)
  ELSE IF e.k = "startend" THEN
    LET r1 == handle_starttag(rd, e.name, e.attrs)
    IN IF r1.err # "" THEN r1 ELSE handle_endtag(r1, e.name)
  ELSE IF e.k = "data" THEN handle_data(rd, e.s)
  ELSE IF e.k = "entityref" THEN handle_entityref(rd, e.s)
  ELSE IF e.k = "charref" THEN handle_charref(rd, e.s)
  ELSE rd

\* lines 355-358: feed the events until one raises
ReadRun(rd, events) ==
  FoldAll(LAMBDA r, e : IF r.err # "" THEN r ELSE reader_event(r, e), rd, events)

\* a read that swallows the exception whatever ignore_errors is
read_result_swallow(rd, ignore_errors) ==
  [raised |-> "",
   contents |-> unnest_indent_tags(get_contents(process_dom_read(rd.dom))).out]

\* lines 360-366: the result of read, given the reader's state when parsing
\* ended: the exception, or the stream of the tree
read_result(rd, ignore_errors) ==
  IF rd.err # "" /\ ~ignore_errors THEN [raised |-> rd.err, contents |-> <<>>]
  ELSE [raised |-> "",
        contents |-> unnest_indent_tags(get_contents(process_dom_read(rd.dom))).out]

\* lines 345-366
read(events, partial, ignore_errors) ==
  read_result(ReadRun(ReaderInit(partial), events), ignore_errors)

\* ------------------------------------------------------------ HTML writer
EndsWithNewline(text) == text # <<>> /\ Last(text) = "\n"

\* "while True: child = node.first_child(); ...; child.remove();
\*  item_dom.append_child(child)": all children of src become the last
\* children of dst
RECURSIVE set_parents(_, _, _)
set_parents(d, ids, p) ==
  IF ids = <<>> THEN d
  ELSE set_parents([d EXCEPT ![Head(ids)].parent = p], Tail(ids), p)
move_children(d, src, dst) ==
  LET moved == d[src].ch
  IN set_parents([d EXCEPT ![src].ch = <<>>, ![dst].ch = @ \o moved], moved, dst)

\* lines 711-720: the children of node go to its parent, before it, and node
\* is removed
splice_children(d, n) ==
  LET p == d[n].parent
      sibs == d[p].ch
      i == IndexOf(sibs, n)
      moved == d[n].ch
  IN set_parents([d EXCEPT ![p].ch = SubSeq(sibs, 1, i - 1) \o moved
                                      \o SubSeq(sibs, i + 1, Len(sibs)),
                           ![n].ch = <<>>,
                           ![n].parent = 0],
                 moved, p)

\* lines 689-733: the first walk of prepare_dom_write
RECURSIVE walk_par(_, _, _), walk_par_list(_, _, _)
walk_par(d, n, within_indent) ==
  IF IsTagDom(d, n) /\ IsParTag(d[n].tag) THEN
    IF within_indent THEN
      \* (1) change p to li
      LET item_dom == NewId(d)
          d1 == move_children(AddNode(d, LiHtmlTagDom(d[n].tag.par)), n, item_dom)
      IN replace_child(d1, d[n].parent, n, item_dom)
    ELSE
      \* (2) remove p
      splice_children(d, n)
  ELSE IF IsTagDom(d, n) /\ IsIndentTag(d[n].tag) THEN
    \* (3) insert li above ol
    LET item_dom == NewId(d)
        d1 == IF within_indent
              THEN append_child(replace_child(AddNode(d, LiHtmlTagDom("none")),
                                              d[n].parent, n, item_dom),
                                item_dom, n)
              ELSE d
    IN walk_par_list(d1, d1[n].ch, TRUE)
  ELSE walk_par_list(d, d[n].ch, within_indent)
walk_par_list(d, ids, within_indent) ==
  FoldAll(LAMBDA d2, n : walk_par(d2, n, within_indent), d, ids)

\* lines 770-778: the rightmost descendant of a list item, None (0) when the
\* way down meets an indent
RECURSIVE rightmost(_, _)
rightmost(d, child) ==
  IF child = 0 \/ is_leaf(d, child) THEN child
  ELSE IF IsTagDom(d, child) /\ IsIndentTag(d[child].tag) THEN 0
  ELSE rightmost(d, last_child(d, child))

IsHr(d, n) == IsAnchorDom(d, n) /\ d[n].anchor = RichTextHorizontalRule

\* lines 753-765: <hr/> and <ol> consume the newline that ends the last leaf
trim_before(st, n) ==
  IF (IsHr(st.d, n) \/ (IsTagDom(st.d, n) /\ IsIndentTag(st.d[n].tag)))
     /\ IsTextDom(st.d, st.last_leaf) /\ EndsWithNewline(st.d[st.last_leaf].text)
  THEN [st EXCEPT !.d[st.last_leaf].text = Front(@)]
  ELSE st

\* a writer whose </li> leaves the newline of its rightmost text in place
trim_li_keep(st, n) == st

\* lines 767-782: </li> consumes the newline that ends its rightmost text
trim_li(st, n) ==
  IF IsLiHtmlTagDom(st.d, n) THEN
    LET child == rightmost(st.d, last_child(st.d, n)) IN
    IF IsTextDom(st.d, child) /\ EndsWithNewline(st.d[child].text)
    THEN [st EXCEPT !.d[child].text = Front(@)]
    ELSE st
  ELSE st

\* lines 784-797: a leaf
walk_leaf(st, n) ==
  LET s1 == IF IsHr(st.d, st.last_leaf) /\ IsTextDom(st.d, n)
               /\ StartsWith(st.d[n].text, <<"\n">>)
            THEN [st EXCEPT !.d[n].text = Tail(@)]
            ELSE st
  IN IF ~IsTagDom(s1.d, n) THEN [s1 EXCEPT !.last_leaf = n] ELSE s1

\* a walk that takes no element for a bullet
is_bullet_node_never(d, n) == FALSE

\* lines 747-749: "remove bullet tags and their contents"
is_bullet_node(d, n) == IsTagDom(d, n) /\ IsBulletTag(d[n].tag)

\* lines 745-806: the second walk of prepare_dom_write; st holds the tree and
\* last_leaf (0: None)
RECURSIVE walk_clean(_, _), walk_clean_list(_, _)
walk_clean(st, n) ==
  IF is_bullet_node(st.d, n) THEN [st EXCEPT !.d = remove(st.d, n)]
  ELSE
    LET s1 == trim_li(trim_before(st, n), n)
        s2 == IF is_leaf(s1.d, n) THEN walk_leaf(s1, n) ELSE walk_clean_list(s1, s1.d[n].ch)
    IN IF IsTagDom(s2.d, n) /\ is_leaf(s2.d, n) THEN [s2 EXCEPT !.d = remove(s2.d, n)] ELSE s2
walk_clean_list(st, ids) == FoldAll(walk_clean, st, ids)

\* lines 683-808
prepare_dom_write(d) ==
  walk_clean([d |-> walk_par(d, Root, FALSE), last_leaf |-> 0], Root).d

\* get_property("name") of a tag: a justify tag is named by its value
TagName(tag) == IF tag.t = "justify" THEN tag.par ELSE tag.t
\* takenote.gui.richtextbuffer.IGNORE_TAGS
IGNORE_TAGS == {"gtkspell-misspelled"}
\* _buffer_tag2html
buffer_tag2html(tagname) ==
  CASE tagname = "bold" -> "b"
    [] tagname = "italic" -> "i"
    [] tagname = "underline" -> "u"
    [] tagname = "nowrap" -> "nobr"
    [] OTHER -> ""
\* _justify, as the names of justify tags
justify_names == {"left", "center", "right", "fill", "justify"}
JustifyStr(name) ==
  CASE name = "left" -> S_left
    [] name = "center" -> S_center
    [] name = "right" -> S_right
    [] name = "fill" -> S_fill
    [] OTHER -> S_justify

\* str.replace(c, repl) for a one-character c
RECURSIVE ReplaceChar(_, _, _)
ReplaceChar(text, c, repl) ==
  IF text = <<>> THEN <<>>
  ELSE (IF Head(text) = c THEN repl ELSE <<Head(text)>>) \o ReplaceChar(Tail(text), c, repl)
\* text.replace("  ", " &nbsp;")
RECURSIVE ReplaceDoubleSpace(_)
ReplaceDoubleSpace(text) ==
  IF Len(text) < 2 THEN text
  ELSE IF text[1] = " " /\ text[2] = " "
    THEN <<" ", "&", "n", "b", "s", "p", ";">> \o ReplaceDoubleSpace(Tail(Tail(text)))
    ELSE <<Head(text)>> \o ReplaceDoubleSpace(Tail(text))

\* lines 834-838
escape_text(text) ==
  ReplaceDoubleSpace(
    ReplaceChar(
      ReplaceChar(
        ReplaceChar(
          ReplaceChar(text, "&", <<"&", "a", "m", "p", ";">>),
          ">", <<"&", "g", "t", ";">>),
        "<", <<"&", "l", "t", ";">>),
      "\t", <<"&", "#", "0", "9", ";">>))

\* line 839: text.replace("\n", "<br/>\n")
RECURSIVE replace_newlines(_)
replace_newlines(text) ==
  IF text = <<>> THEN <<>>
  ELSE (IF Head(text) = "\n" THEN <<StartEndTag("br", <<>>), Chr("\n")>>
        ELSE <<Chr(Head(text))>>) \o replace_newlines(Tail(text))

\* lines 830-840
write_text(text) == replace_newlines(escape_text(text))

\* lines 842-860
write_anchor(anchor) ==
  IF anchor.a = "img" THEN
    <<StartEndTag("img",
        <<Attr("src", <<>>)>>
        \o (IF anchor.w # -1 THEN <<Attr("width", IntStr(anchor.w))>> ELSE <<>>)
        \o (IF anchor.h # -1 THEN <<Attr("height", IntStr(anchor.h))>> ELSE <<>>))>>
  ELSE IF anchor.a = "hr" THEN <<StartEndTag("hr", <<>>)>>
  ELSE <<>>

\* lines 945-947: the "#RRGGBB" of a tag color "#RRRRGGGGBBBB"; <<>> when the
\* assertion fails
tagcolor_to_html(c) ==
  IF Len(c) # 13 THEN <<>>
  ELSE <<c[1], c[2], c[3], c[6], c[7], c[10], c[11]>>

StyleTag(name, style) == <<StartTag(name, <<Attr("style", style)>>)>>

\* a writer that skips the opening of a tag it does not know
unknown_tag_skip(tagname) == [out |-> <<>>, err |-> ""]
\* lines 916-917: raise HtmlError("unknown tag '%s'")
unknown_tag(tagname) == [out |-> <<>>, err |-> "HtmlError"]

\* lines 868-917: what write_tag_begin writes for a tag node, or the error it
\* raises
write_tag_begin(d, n) ==
  LET tag == d[n].tag
      tagname == TagName(tag)
      ok(out) == [out |-> out, err |-> ""]
  IN IF tagname \in IGNORE_TAGS THEN ok(<<>>)
     ELSE IF buffer_tag2html(tagname) # "" THEN ok(<<StartTag(buffer_tag2html(tagname), <<>>)>>)
     ELSE IF tag.t = "size" THEN
       ok(StyleTag("span", <<"f", "o", "n", "t", "-", "s", "i", "z", "e", ":", " ">>
                           \o IntStr(tag.n) \o <<"p", "t">>))
     ELSE IF tag.t = "justify" THEN
       ok(StyleTag("div", <<"t", "e", "x", "t", "-", "a", "l", "i", "g", "n", ":", " ">>
                          \o (IF tagname = "fill" THEN S_justify ELSE JustifyStr(tagname))))
     ELSE IF tag.t = "family" THEN
       ok(StyleTag("span", <<"f", "o", "n", "t", "-", "f", "a", "m", "i", "l", "y", ":", " ">>
                           \o tag.s))
     ELSE IF tag.t = "fg_color" THEN
       IF tagcolor_to_html(tag.s) = <<>> THEN [out |-> <<>>, err |-> "AssertionError"]
       ELSE ok(StyleTag("span", <<"c", "o", "l", "o", "r", ":", " ">> \o tagcolor_to_html(tag.s)))
     ELSE IF tag.t = "bg_color" THEN
       IF tagcolor_to_html(tag.s) = <<>> THEN [out |-> <<>>, err |-> "AssertionError"]
       ELSE ok(StyleTag("span", S_background_color \o <<":", " ">> \o tagcolor_to_html(tag.s)))
     ELSE IF IsIndentTag(tag) THEN ok(<<StartTag("ol", <<>>)>>)
     ELSE IF IsLiHtmlTagDom(d, n) THEN
       IF tag.par = "bullet"
       THEN ok(StyleTag("li", S_list_style_type \o <<":", " ">> \o S_disc))
       ELSE ok(StyleTag("li", S_list_style_type \o <<":", " ">> \o S_none))
     ELSE unknown_tag(tagname)

\* lines 920-942
write_tag_end(d, n) ==
  LET tag == d[n].tag
      tagname == TagName(tag)
  IN IF buffer_tag2html(tagname) # "" THEN <<EndTag(buffer_tag2html(tagname))>>
     ELSE IF tagname \in justify_names THEN <<EndTag("div")>>
     ELSE IF IsIndentTag(tag) THEN <<EndTag("ol"), Chr("\n")>>
     ELSE IF IsLiHtmlTagDom(d, n) THEN <<EndTag("li"), Chr("\n")>>
     ELSE IF IsBulletTag(tag) THEN <<>>
     ELSE <<EndTag("span")>>

\* lines 812-827: write the children ids; w holds what was written (out) and
\* the exception raised (err)
RECURSIVE write_dom_list(_, _, _), write_dom_child(_, _, _)
write_dom_child(d, w, child) ==
  IF w.err # "" THEN w
  ELSE IF IsTextDom(d, child) THEN [w EXCEPT !.out = @ \o write_text(d[child].text)]
  ELSE IF IsTagDom(d, child) THEN
    LET b == write_tag_begin(d, child) IN
    IF b.err # "" THEN [w EXCEPT !.err = b.err]
    ELSE
      LET w1 == write_dom_list(d, d[child].ch, [w EXCEPT !.out = @ \o b.out])
      IN IF w1.err # "" THEN w1
         ELSE [w1 EXCEPT !.out = @ \o write_tag_end(d, child)]
  ELSE IF IsAnchorDom(d, child) THEN [w EXCEPT !.out = @ \o write_anchor(d[child].anchor)]
  ELSE [w EXCEPT !.err = "Exception"]
\* "for child in dom"
write_dom_list(d, ids, w) == FoldAll(LAMBDA w2, child : write_dom_child(d, w2, child), w, ids)
write_dom(d, w) == write_dom_list(d, d[Root].ch, w)

\* XHTML_HEADER, XHTML_FOOTER
XHTML_HEADER == <<Decl, Chr("\n"), StartTag("html", <<>>), Chr("\n"), StartTag("body", <<>>)>>
XHTML_FOOTER == <<EndTag("body"), EndTag("html")>>

\* lines 670-673: the stream the tree is built of
write_contents(buffer_content) ==
  LET p == find_paragraphs(buffer_content) IN
  IF p.err THEN [out |-> <<>>, err |-> TRUE]
  ELSE LET n == nest_indent_tags(p.out) IN
       IF n.err THEN [out |-> <<>>, err |-> TRUE]
       ELSE [out |-> normalize_tags(n.out), err |-> FALSE]

\* lines 664-680: what write leaves in the output, and the exception raised
write(buffer_content, partial) ==
  LET header == IF partial THEN <<>> ELSE XHTML_HEADER
      c == write_contents(buffer_content)
  IN IF c.err THEN [out |-> header, err |-> "Exception"]
     ELSE
       LET w == write_dom(prepare_dom_write(TextBufferDom(c.out)), [out |-> header, err |-> ""])
       IN IF w.err # "" THEN w
          ELSE [w EXCEPT !.out = @ \o (IF partial THEN <<>> ELSE XHTML_FOOTER)]

\* ---------------------------------------------- keepnote/extension.py
\* A version is a tuple of numbers.  Python orders tuples item by item, and
\* a proper prefix before the longer tuple.
RECURSIVE TupleLess(_, _)
TupleLess(a, b) ==
  IF b = <<>> THEN FALSE
  ELSE IF a = <<>> THEN TRUE
  ELSE IF Head(a) # Head(b) THEN Head(a) < Head(b)
  ELSE TupleLess(Tail(a), Tail(b))
\* an extension as dependency_satisfied sees it: None, or an object with a
\* version
NoExtension == [none |-> TRUE, version |-> <<>>]
ExtensionOf(version) == [none |-> FALSE, version |-> version]
\* a dependency (NAME, REL, VERSION)
Dep(name, rel, version) == [name |-> name, rel |-> rel, version |-> version]

\* lines 30-49: no branch tests rel == "!="
dependency_satisfied(e, d) ==
  IF e.none THEN d.rel = "!="
  ELSE IF d.rel = ">" THEN TupleLess(d.version, e.version)
  ELSE IF d.rel = ">=" THEN ~TupleLess(e.version, d.version)
  ELSE IF d.rel = "==" THEN e.version = d.version
  ELSE IF d.rel = "<=" THEN ~TupleLess(d.version, e.version)
  ELSE IF d.rel = "<" THEN TupleLess(e.version, d.version)
  ELSE TRUE

\* self._app.dependency_satisfied(dep): the application looks the name up
\* among its extensions (None when it has none of that name)
app_dependency_satisfied(a, d) == dependency_satisfied(a[d.name], d)

\* lines 72-78: Extension.__init__
ExtensionInit == [enabled |-> FALSE, windows |-> {}, uis |-> {}]
\* a callback made by a method of Extension, on a window or with a flag
WindowCall(f, window) == [f |-> f, window |-> window, flag |-> FALSE]
FlagCall(f, flag) == [f |-> f, window |-> 0, flag |-> flag]
\* what a method leaves: the object, the exception raised ("" for none), the
\* value returned (None as FALSE when it raises or returns nothing) and the
\* callbacks made
Outcome(obj, raised, ret, calls) ==
  [obj |-> obj, raised |-> raised, ret |-> ret, calls |-> calls]
\* lines 84-86: the dependencies that fail the check
Unsatisfied(a, depends) == {i \in 1..Len(depends) : ~app_dependency_satisfied(a, depends[i])}

\* an enable that sets _enabled before it checks the dependencies
enable_unchecked(obj, a, depends, flag) ==
  IF Unsatisfied(a, depends) # {}
  THEN Outcome([obj EXCEPT !.enabled = flag], "DependencyException", FALSE, {})
  ELSE Outcome([obj EXCEPT !.enabled = flag,
                           !.uis = IF flag THEN obj.uis \cup obj.windows ELSE {}],
               "", flag, {FlagCall("on_extension_enabled", flag), FlagCall("on_enabled", flag)})
\* lines 81-107: Extension.enable(flag)
enable(obj, a, depends, flag) ==
  IF Unsatisfied(a, depends) # {}
  THEN Outcome(obj, "DependencyException", FALSE, {})
  ELSE
    LET o1 == [obj EXCEPT !.enabled = flag]
        ui_calls == IF flag
                    THEN {WindowCall("on_add_ui", w) : w \in o1.windows \ o1.uis}
                    ELSE {WindowCall("on_remove_ui", w) : w \in o1.uis}
        o2 == [o1 EXCEPT !.uis = IF flag THEN o1.uis \cup o1.windows ELSE {}]
    IN Outcome(o2, "", o2.enabled,
               ui_calls \cup {FlagCall("on_extension_enabled", flag), FlagCall("on_enabled", flag)})
\* lines 109-111
is_enabled(obj) == obj.enabled
\* lines 171-177: Extension.on_new_window(window)
on_new_window(obj, window) ==
  IF obj.enabled
  THEN Outcome([obj EXCEPT !.uis = @ \cup {window}, !.windows = @ \cup {window}],
               "", FALSE, {WindowCall("on_add_ui", window)})
  ELSE Outcome([obj EXCEPT !.windows = @ \cup {window}], "", FALSE, {})
\* lines 180-187: Extension.on_close_window(window)
on_close_window(obj, window) ==
  IF window \in obj.windows THEN
    IF window \in obj.uis
    THEN Outcome([obj EXCEPT !.uis = @ \ {window}, !.windows = @ \ {window}],
                 "", FALSE, {WindowCall("on_remove_ui", window)})
    ELSE Outcome([obj EXCEPT !.windows = @ \ {window}], "", FALSE, {})
  ELSE Outcome(obj, "", FALSE, {})

\* ------------------------------------------------- HTMLParser.feed(line)
\* read feeds the parser line by line (lines 356-357) and HTMLParser hands
\* over character data up to the next "<" or "&" or the end of what it was
\* fed: a data chunk ends at a tag, at a reference and after a newline.
IsNameChar(c) ==
  IsDigit(c) \/ c \in {"a", "b", "c", "d", "e", "f", "g", "l", "m", "n", "p", "s", "t", "x", "#"}

\* the length of the reference "&name;" that starts at item i of html, 0 for
\* none; j counts its characters
RECURSIVE RefLen(_, _, _)
RefLen(html, i, j) ==
  LET p == i + j - 1 IN
  IF p > Len(html) \/ html[p].k # "chr" THEN 0
  ELSE IF html[p].s = <<";">> THEN (IF j > 2 THEN j ELSE 0)
  ELSE IF IsNameChar(html[p].s[1]) THEN RefLen(html, i, j + 1)
  ELSE 0

RefEvent(html, i, len) ==
  LET name == [k \in 1..(len - 2) |-> html[i + k].s[1]]
  IN IF Head(name) = "#" THEN CharRef(Tail(name)) ELSE EntityRef(name)

FlushData(cur) == IF cur = <<>> THEN <<>> ELSE <<Data(cur)>>

\* item i of what is fed; st holds the pending character data (cur), the
\* callbacks made (out) and the index up to which a reference reaches (skip)
feed_item(st, html, i) ==
  IF i < st.skip THEN st
  ELSE
    LET t == html[i] IN
    IF t.k # "chr" THEN [st EXCEPT !.out = @ \o FlushData(st.cur) \o <<t>>, !.cur = <<>>]
    ELSE IF t.s = <<"&">> THEN
      LET len == RefLen(html, i, 2) IN
      IF len > 0
      THEN [out |-> st.out \o FlushData(st.cur) \o <<RefEvent(html, i, len)>>,
            cur |-> <<>>, skip |-> i + len]
      ELSE [st EXCEPT !.out = @ \o FlushData(st.cur) \o <<Data(<<"&">>)>>, !.cur = <<>>]
    ELSE IF t.s = <<"\n">> THEN
      [st EXCEPT !.out = @ \o FlushData(Append(st.cur, "\n")), !.cur = <<>>]
    ELSE [st EXCEPT !.cur = Append(@, t.s[1])]

Feed(html, cur) ==
  LET st == FoldAll(LAMBDA s, i : feed_item(s, html, i),
                    [cur |-> cur, out |-> <<>>, skip |-> 0], Indices(html))
  IN st.out \o FlushData(st.cur)

\* the callbacks of reading the text html
ParserEvents(html) == Feed(html, <<>>)

\* ===================================================== the state machines
\* nest_in, nest, nest_done: a run of the generator nest_indent_tags: the
\*   items it has consumed, its local state, whether it is exhausted.
\* un_open, un_n, un_last, un: a run of the generator unnest_indent_tags over
\*   the contents of a dom: the names of the elements that are open in its
\*   input, the number of items consumed, the last item, its local state.
\* rd, rd_n, rd_last, rd_pre: an HtmlBuffer while HTMLParser calls it back:
\*   its state, the number of callbacks so far, the last callback, and what
\*   the state was just before it (_newline, _within_body and the text of the
\*   last child of _dom_ptr).
\* rd_chunk, rd_fed: the character data of the line being fed and whether
\*   handle_data has had it.
\* rd_done, rd_out: read has returned, and its result.
\* rt_pars, rt: the paragraphs of a text buffer, and the round trip of its
\*   contents: the stage, the contents, whether write is partial, the html
\*   written and the exception raised, the stream read.
\* col_in, col: a color declaration or a color tag, and what became of it:
\*   the stage, the html written for it and the tag names read from it.
\* ext, app: an Extension (its _enabled, its windows and its uis, what
\*   get_depends returns) with the last method called on it, its argument
\*   (a flag or a window), the exception raised, the value returned and the
\*   callbacks made; the application's extensions by name.
\* dep: a call of dependency_satisfied: its arguments and its result.
\* fp_in, fp, fp_done: find_paragraphs: the items it has consumed, its local
\*   state with what it has yielded, and whether its input is exhausted.
VARIABLES nest_in, nest, nest_done, un_open, un_n, un_last, un,
          rd, rd_n, rd_last, rd_pre, rd_chunk, rd_fed, rd_done, rd_out,
          col_in, col, rt_pars, rt, ext, app, dep, fp_in, fp, fp_done

nest_vars == <<nest_in, nest, nest_done>>
un_vars == <<un_open, un_n, un_last, un>>
rd_vars == <<rd, rd_n, rd_last, rd_pre, rd_chunk, rd_fed, rd_done, rd_out>>
col_vars == <<col_in, col>>
rt_vars == <<rt_pars, rt>>
ext_vars == <<ext, app, dep>>
fp_vars == <<fp_in, fp, fp_done>>
vars == <<nest_in, nest, nest_done, un_open, un_n, un_last, un,
          rd, rd_n, rd_last, rd_pre, rd_chunk, rd_fed, rd_done, rd_out,
          col_in, col, rt_pars, rt, ext, app, dep, fp_in, fp, fp_done>>

\* the text of the last child of _dom_ptr, "" when that is no TextDom
LastText(r) ==
  LET last == last_child(r.dom, r.dom_ptr)
  IN IF IsTextDom(r.dom, last) THEN r.dom[last].text ELSE <<>>
Pre(r) == [newline |-> r.newline, within_body |-> r.within_body, text |-> LastText(r)]

NestIdle == nest_in = <<>> /\ nest = NestInit /\ nest_done = FALSE
ParsIdle == fp_in = <<>> /\ fp = FindParInit /\ fp_done = FALSE
UnnestIdle == un_open = <<>> /\ un_n = 0 /\ un_last = Text(<<>>) /\ un = UnnestInit
ReaderStart(partial) ==
  /\ rd = ReaderInit(partial)
  /\ rd_n = 0 /\ rd_last = Decl /\ rd_pre = Pre(ReaderInit(partial))
  /\ rd_fed = FALSE /\ rd_done = FALSE /\ rd_out = <<>>
ReaderIdle == ReaderStart(FALSE) /\ rd_chunk = <<>>
ColorStart == col = [stage |-> "start", html |-> <<>>, names |-> <<>>]
RoundTripIdle ==
  /\ rt_pars = <<>>
  /\ rt = [stage |-> "edit", partial |-> TRUE, contents |-> <<>>, html |-> <<>>,
           back |-> <<>>, err |-> ""]
ColorIdle == col_in = [prop |-> <<>>, value |-> <<>>] /\ ColorStart
DependsIdle == dep = [ext |-> NoExtension, dep |-> Dep("", "", <<>>), done |-> FALSE, result |-> FALSE]
ObjectIdle ==
  /\ ext = [depends |-> <<>>, op |-> "", flag |-> FALSE, window |-> 0,
            out |-> Outcome(ExtensionInit, "", FALSE, {})]
  /\ app = [name \in {"keepnote"} |-> NoExtension]
ExtensionIdle == DependsIdle /\ ObjectIdle

\* ------------------------------------------- SpecNest: nest_indent_tags
\* The items a caller can hand to the generator.
NestLevels == 1..MaxLevel
NestItems ==
  {Text(<<"a">>), Anchor(RichTextHorizontalRule),
   Begin(RichTextModTag("bold")), End(RichTextModTag("bold")),
   Begin(RichTextIndentTag(1, "bullet")), End(RichTextIndentTag(1, "bullet"))}
  \cup {Begin(RichTextIndentTag(n, "none")) : n \in NestLevels}
  \cup {End(RichTextIndentTag(n, "none")) : n \in NestLevels}

\* the generator consumes one more item of its input
NestFeed ==
  /\ ~nest_done /\ ~nest.err
  /\ Len(nest_in) < MaxNestItems
  /\ \E item \in NestItems :
       /\ nest_in' = Append(nest_in, item)
       /\ nest' = nest_item(nest, item)
  /\ UNCHANGED <<nest_done, un_vars, rd_vars, col_vars, rt_vars, ext_vars, fp_vars>>

\* the input is exhausted: lines 119-123 run and the generator stops
NestFinish ==
  /\ ~nest_done /\ ~nest.err
  /\ nest' = nest_finish(nest)
  /\ nest_done' = TRUE
  /\ UNCHANGED <<nest_in, un_vars, rd_vars, col_vars, rt_vars, ext_vars, fp_vars>>

InitNest == NestIdle /\ UnnestIdle /\ ParsIdle /\ ExtensionIdle /\ ReaderIdle /\ ColorIdle /\ RoundTripIdle
NextNest == NestFeed \/ NestFinish
SpecNest == InitNest /\ [][NextNest]_vars

\* ---------------------------------------- SpecUnnest: unnest_indent_tags
\* The generator reads dom.get_contents(): a stream of beginstr/endstr
\* events that nest, over the tag names of handle_starttag, and text.
UnnestNames == {S_ol, S_li_ \o S_none, S_li_ \o S_bullet, S_bold}

UnnestConsume(item) ==
  /\ un_n < MaxUnnestEvents
  /\ ~un.err
  /\ un_n' = un_n + 1
  /\ un_last' = item
  /\ un' = unnest_item(un, item)

\* the next item opens an element
UnnestBegin ==
  /\ \E name \in UnnestNames :
       /\ UnnestConsume(BeginStr(name))
       /\ un_open' = Append(un_open, name)
  /\ UNCHANGED <<nest_vars, rd_vars, col_vars, rt_vars, ext_vars, fp_vars>>

\* the next item closes the innermost open element
UnnestEnd ==
  /\ un_open # <<>>
  /\ UnnestConsume(EndStr(Last(un_open)))
  /\ un_open' = Front(un_open)
  /\ UNCHANGED <<nest_vars, rd_vars, col_vars, rt_vars, ext_vars, fp_vars>>

\* the next item is text
UnnestText ==
  /\ UnnestConsume(Text(<<"a">>))
  /\ UNCHANGED <<un_open, nest_vars, rd_vars, col_vars, rt_vars, ext_vars, fp_vars>>

InitUnnest == NestIdle /\ UnnestIdle /\ ParsIdle /\ ExtensionIdle /\ ReaderIdle /\ ColorIdle /\ RoundTripIdle
NextUnnest == UnnestBegin \/ UnnestEnd \/ UnnestText
SpecUnnest == InitUnnest /\ [][NextUnnest]_vars

\* --------------------------------------------- SpecRead: HtmlBuffer.read
\* The callbacks of lists, list items, a font tag, the body and text.
ListStyle(kind) == <<Attr("style", S_list_style_type \o <<":", " ">> \o kind)>>
ReadEvents ==
  {StartTag("ol", <<>>), EndTag("ol"),
   StartTag("li", <<>>), StartTag("li", ListStyle(S_disc)), EndTag("li"),
   StartTag("b", <<>>), EndTag("b"), StartTag("body", <<>>),
   Data(<<"a">>)}

\* HTMLParser makes one callback
Callback(e) ==
  /\ ~rd_done /\ rd.err = ""
  /\ rd' = reader_event(rd, e)
  /\ rd_n' = rd_n + 1
  /\ rd_last' = e
  /\ rd_pre' = Pre(rd)

ReadCallback ==
  /\ rd_n < MaxReadEvents
  /\ \E e \in ReadEvents : Callback(e)
  /\ UNCHANGED <<rd_chunk, rd_fed, rd_done, rd_out, nest_vars, un_vars, col_vars, rt_vars, ext_vars, fp_vars>>

\* the input is exhausted: lines 360-366
ReadReturn ==
  /\ ~rd_done
  /\ rd_done' = TRUE
  /\ rd_out' = read_result(rd, FALSE).contents
  /\ UNCHANGED <<rd, rd_n, rd_last, rd_pre, rd_chunk, rd_fed, nest_vars, un_vars, col_vars, rt_vars, ext_vars, fp_vars>>

InitRead ==
  /\ NestIdle /\ UnnestIdle /\ ParsIdle /\ ExtensionIdle /\ ColorIdle /\ RoundTripIdle
  /\ \E partial \in BOOLEAN : ReaderStart(partial)
  /\ rd_chunk = <<>>
NextRead == ReadCallback \/ ReadReturn
SpecRead == InitRead /\ [][NextRead]_vars

\* ------------------------------------------ SpecData: handle_data
\* The character data of a line: the strings over newline, space and a
\* letter, of length 1..MaxChunk.
RECURSIVE Strings(_, _)
Strings(alphabet, n) ==
  IF n = 0 THEN {<<>>}
  ELSE LET shorter == Strings(alphabet, n - 1)
       IN shorter \cup {Append(t, c) : t \in shorter, c \in alphabet}
Chunks == Strings({"\n", " ", "a"}, MaxChunk) \ {<<>>}

\* the tags around the data: they set and clear _newline and _within_body
DataTags ==
  {StartEndTag("br", <<>>), StartTag("b", <<>>), EndTag("li"), StartTag("body", <<>>)}

DataTag ==
  /\ rd_n < MaxDataTags
  /\ \E e \in DataTags : Callback(e)
  /\ UNCHANGED <<rd_chunk, rd_fed, rd_done, rd_out, nest_vars, un_vars, col_vars, rt_vars, ext_vars, fp_vars>>

\* handle_data gets the character data
DataChunk ==
  /\ ~rd_fed
  /\ Callback(Data(rd_chunk))
  /\ rd_fed' = TRUE
  /\ UNCHANGED <<rd_chunk, rd_done, rd_out, nest_vars, un_vars, col_vars, rt_vars, ext_vars, fp_vars>>

InitData ==
  /\ NestIdle /\ UnnestIdle /\ ParsIdle /\ ExtensionIdle /\ ColorIdle /\ RoundTripIdle
  /\ \E partial \in BOOLEAN : ReaderStart(partial)
  /\ rd_chunk \in Chunks
NextData == DataTag \/ DataChunk
SpecData == InitData /\ [][NextData]_vars

\* ----------------------------------- SpecColor: colors in style attributes
\* A css value "#abc" or "#aabbcc" over three hex digits, and the 13-character
\* color "#rrrrggggbbbb" of a color tag over two.
CssDigits == {"0", "8", "f"}
TagDigits == {"0", "f"}
SeqsOf(alphabet, n) == {t \in Strings(alphabet, n) : Len(t) = n}
CssColors == {<<"#">> \o t : t \in SeqsOf(CssDigits, 3) \cup SeqsOf(CssDigits, 6)}
TagColors == {<<"#">> \o t : t \in SeqsOf(TagDigits, 12)}
ColorProps == {S_color, S_background_color}

\* the names of the TagNameDom nodes of a tree, in the order of their making
TagNames(d) == Pick([n \in 1..Len(d) |-> d[n].text],
                    SelectSeq([n \in 1..Len(d) |-> n], LAMBDA n : IsTagNameDom(d, n)))
\* the tag names that open in a stream read
BeginNames(contents) ==
  Pick([i \in 1..Len(contents) |-> contents[i].s],
       SelectSeq([i \in 1..Len(contents) |-> i], LAMBDA i : contents[i].k = "beginstr"))
\* the color tag of a property
ColorTag(prop, value) ==
  TagS(IF prop = S_color THEN "fg_color" ELSE "bg_color", 0, "", value)

\* the reader meets <span style="prop: value">
ColorParse ==
  /\ col.stage = "start"
  /\ col_in.value \in CssColors
  /\ LET r == handle_starttag(ReaderInit(TRUE), "span",
                               <<Attr("style", col_in.prop \o <<":", " ">> \o col_in.value)>>)
     IN col' = [stage |-> "parsed", html |-> <<>>, names |-> TagNames(r.dom)]
  /\ UNCHANGED <<col_in, nest_vars, un_vars, rd_vars, rt_vars, ext_vars, fp_vars>>

\* the writer writes text that carries the color tag
ColorWrite ==
  /\ col.stage = "start"
  /\ col_in.value \in TagColors
  /\ LET tag == ColorTag(col_in.prop, col_in.value)
         w == write(<<Begin(tag), Text(<<"a">>), End(tag)>>, TRUE)
     IN col' = [stage |-> "written", html |-> w.out, names |-> <<>>]
  /\ UNCHANGED <<col_in, nest_vars, un_vars, rd_vars, rt_vars, ext_vars, fp_vars>>

\* the reader reads what the writer wrote
ColorRead ==
  /\ col.stage = "written"
  /\ col' = [col EXCEPT !.stage = "reread",
                        !.names = BeginNames(read(ParserEvents(col.html), TRUE, FALSE).contents)]
  /\ UNCHANGED <<col_in, nest_vars, un_vars, rd_vars, rt_vars, ext_vars, fp_vars>>

InitColor ==
  /\ NestIdle /\ UnnestIdle /\ ParsIdle /\ ExtensionIdle /\ ReaderIdle /\ RoundTripIdle
  /\ col_in \in [prop : ColorProps, value : CssColors \cup TagColors]
  /\ ColorStart
NextColor == ColorParse \/ ColorWrite \/ ColorRead
SpecColor == InitColor /\ [][NextColor]_vars

\* ------------------------------------- SpecRoundTrip: write, then read
\* A text buffer is a sequence of paragraphs, each with its indent level (0
\* for none), its type (bulleted or not) and its text; every paragraph but
\* the last ends with a newline, the last may.
ParBodies == {<<>>, <<" ", "a">>, <<"&", "<">>}
ParKinds ==
  {[level |-> 0, par |-> "none"]}
  \cup [level : 1..MaxLevel, par : {"none", "bullet"}]
Pars == {[level |-> k.level, par |-> k.par, body |-> b] : k \in ParKinds, b \in ParBodies}

SameSpan(p, q) == p.level = q.level /\ p.par = q.par

\* the events of paragraph i: its indent tag opens before it unless the
\* paragraph before carries the same tag, and closes after it likewise; a
\* bulleted paragraph begins with the bullet
ParEvents(ps, i, last_nl) ==
  LET p == ps[i]
      tag == RichTextIndentTag(p.level, p.par)
      opens == p.level > 0 /\ (i = 1 \/ ~SameSpan(ps[i - 1], p))
      closes == p.level > 0 /\ (i = Len(ps) \/ ~SameSpan(ps[i + 1], p))
      text == p.body \o (IF i < Len(ps) \/ last_nl THEN <<"\n">> ELSE <<>>)
  IN (IF opens THEN <<Begin(tag)>> ELSE <<>>)
     \o (IF p.par = "bullet"
         THEN <<Begin(RichTextBulletTag), Text(BULLET_STR), End(RichTextBulletTag)>>
         ELSE <<>>)
     \o (IF text # <<>> THEN <<Text(text)>> ELSE <<>>)
     \o (IF closes THEN <<End(tag)>> ELSE <<>>)

\* adjacent text events are one text event
MergeText(contents) ==
  FoldAll(LAMBDA acc, item :
            IF acc # <<>> /\ Last(acc).k = "text" /\ item.k = "text"
            THEN Append(Front(acc), Text(Last(acc).s \o item.s))
            ELSE Append(acc, item),
          <<>>, contents)

\* what iterating over the buffer gives
BufferContents(ps, last_nl) ==
  MergeText(Flatten([i \in 1..Len(ps) |-> ParEvents(ps, i, last_nl)]))

\* the user adds a paragraph
RtAddPar ==
  /\ rt.stage = "edit"
  /\ Len(rt_pars) < MaxPars
  /\ \E p \in Pars : rt_pars' = Append(rt_pars, p)
  /\ UNCHANGED <<rt, nest_vars, un_vars, rd_vars, col_vars, ext_vars, fp_vars>>

\* HtmlBuffer.write(buffer_content, tag_table, partial=True)
RtWrite ==
  /\ rt.stage = "edit"
  /\ rt_pars # <<>>
  /\ \E last_nl \in BOOLEAN :
       \* a tag of the buffer spans at least one character
       /\ last_nl \/ Last(rt_pars).body # <<>> \/ Last(rt_pars).par = "bullet"
       /\ LET contents == BufferContents(rt_pars, last_nl)
              w == write(contents, TRUE)
          IN rt' = [stage |-> "written", partial |-> TRUE, contents |-> contents,
                    html |-> w.out, back |-> <<>>, err |-> w.err]
  /\ UNCHANGED <<rt_pars, nest_vars, un_vars, rd_vars, col_vars, ext_vars, fp_vars>>

\* HtmlBuffer.read(infile, partial=True) of what was written
RtRead ==
  /\ rt.stage = "written"
  /\ rt.err = ""
  /\ LET r == read(ParserEvents(rt.html), TRUE, FALSE)
     IN rt' = [rt EXCEPT !.stage = "read", !.back = r.contents, !.err = r.raised]
  /\ UNCHANGED <<rt_pars, nest_vars, un_vars, rd_vars, col_vars, ext_vars, fp_vars>>

InitRoundTrip == NestIdle /\ UnnestIdle /\ ParsIdle /\ ExtensionIdle /\ ReaderIdle /\ ColorIdle /\ RoundTripIdle
NextRoundTrip == RtAddPar \/ RtWrite \/ RtRead
SpecRoundTrip == InitRoundTrip /\ [][NextRoundTrip]_vars

\* ------------------------------------------ SpecWrite: HtmlBuffer.write
S_item_one == <<"i", "t", "e", "m", " ", "o", "n", "e">>
WriteBodies == {S_item_one, <<"a">>, <<"a", "<">>, <<"&", ">">>}
\* one list item: its indent tag, with or without the bullet span, its text,
\* with or without the newline that ends it
ListStreams ==
  {<<Begin(RichTextIndentTag(level, par))>>
     \o (IF glyph
         THEN <<Begin(RichTextBulletTag), Text(BULLET_STR), End(RichTextBulletTag)>>
         ELSE <<>>)
     \o <<Text(body \o (IF nl THEN <<"\n">> ELSE <<>>)), End(RichTextIndentTag(level, par))>> :
   level \in 1..MaxLevel, par \in {"none", "bullet"}, glyph \in BOOLEAN,
   body \in WriteBodies, nl \in BOOLEAN}
\* the tags of a text buffer that mark text; "link" is a tag the writer does
\* not know, the spell checker's tag is one of IGNORE_TAGS
UnknownTag == Tag("link", 0, "")
IgnoredTag == Tag("gtkspell-misspelled", 0, "")
MarkTags ==
  {RichTextModTag("bold"), RichTextModTag("italic"), Tag("size", 12, ""),
   Tag("justify", 0, "center"), TagS("family", 0, "", <<"s">>),
   ColorTag(S_color, <<"#", "f", "f", "f", "f", "0", "0", "0", "0", "8", "8", "8", "8">>),
   UnknownTag, IgnoredTag}
\* marked text, alone or inside other marked text, with or without text
\* before and after
MarkStreams ==
  {(IF pre THEN <<Text(<<"p">>)>> ELSE <<>>)
     \o (IF outer = inner THEN <<>> ELSE <<Begin(outer), Text(<<"o">>)>>)
     \o <<Begin(inner), Text(<<"a">>), End(inner)>>
     \o (IF outer = inner THEN <<>> ELSE <<End(outer)>>)
     \o (IF post THEN <<Text(<<"q">>)>> ELSE <<>>) :
   outer \in MarkTags, inner \in MarkTags, pre \in BOOLEAN, post \in BOOLEAN}
WriteStreams == ListStreams \cup MarkStreams

\* HtmlBuffer.write(buffer_content, tag_table, partial)
WrWrite ==
  /\ rt.stage = "edit"
  /\ LET w == write(rt.contents, rt.partial)
     IN rt' = [rt EXCEPT !.stage = "written", !.html = w.out, !.err = w.err]
  /\ UNCHANGED <<rt_pars, nest_vars, un_vars, rd_vars, col_vars, ext_vars, fp_vars>>

InitWrite ==
  /\ NestIdle /\ UnnestIdle /\ ParsIdle /\ ExtensionIdle /\ ReaderIdle /\ ColorIdle
  /\ rt_pars = <<>>
  /\ \E c \in WriteStreams, partial \in BOOLEAN :
       rt = [stage |-> "edit", partial |-> partial, contents |-> c, html |-> <<>>,
             back |-> <<>>, err |-> ""]
NextWrite == WrWrite
SpecWrite == InitWrite /\ [][NextWrite]_vars

\* ------------------------------------- SpecTags: the reader's tag stack
\* The callbacks of a font tag, a list, a tag the reader does not know, html
\* and body, and text.
TagEvents ==
  {StartTag("b", <<>>), EndTag("b"), StartTag("ol", <<>>), EndTag("ol"),
   StartTag("foo", <<>>), EndTag("foo"),
   StartTag("body", <<>>), EndTag("body"), EndTag("html"),
   Data(<<"a">>)}

TagCallback ==
  /\ rd_n < MaxTagEvents
  /\ \E e \in TagEvents : Callback(e)
  /\ UNCHANGED <<rd_chunk, rd_fed, rd_done, rd_out, nest_vars, un_vars, col_vars, rt_vars, ext_vars, fp_vars>>

InitTags ==
  /\ NestIdle /\ UnnestIdle /\ ParsIdle /\ ExtensionIdle /\ ColorIdle /\ RoundTripIdle
  /\ \E partial \in BOOLEAN : ReaderStart(partial)
  /\ rd_chunk = <<>>
NextTags == TagCallback
SpecTags == InitTags /\ [][NextTags]_vars

\* ------------------------------- SpecNoise: read on noise and on errors
Style(value) == <<Attr("style", value)>>
Declaration(name, value) == name \o <<":", " ">> \o value
\* start tags that carry noise: a style declaration no branch of parse_style
\* or of the li loop takes, with and without ":" and a final ";", an empty
\* style, a width and a height that are no numbers
NoiseStyles ==
  {<<>>, <<"m">>, <<"m", ":", "0">>, <<"m", ":", "0", ";">>}
NoiseTags ==
  {StartTag(name, Style(v)) : name \in {"span", "div", "li"}, v \in NoiseStyles}
    \cup {StartTag("li", Style(Declaration(S_list_style_type, S_disc) \o <<";">>)),
          StartTag("span", Style(Declaration(S_font_size, <<"1", "2", "p", "t">>) \o <<";">>)),
          StartTag("img", <<Attr("width", <<"x">>), Attr("height", <<>>)>>)}
\* references _entity2char and _charref2char do not hold
NoiseRefs == {EntityRef(<<"f", "o", "o">>), CharRef(<<"9", "9">>)}
\* a start tag whose style names an alignment _justify does not hold
BadAlign == StartTag("span", Style(Declaration(S_text_align, <<"x">>)))
BadAlignAfterSize ==
  StartTag("div", Style(Declaration(S_font_size, <<"1", "2", "p", "t">>) \o <<";">>
                        \o Declaration(S_text_align, <<"x">>)))
NoiseEvents ==
  NoiseTags \cup NoiseRefs \cup
  {BadAlign, BadAlignAfterSize,
   StartTag("div", Style(Declaration(S_text_align, S_center))),
   StartTag("li", ListStyle(S_disc)), StartTag("ol", <<>>), EndTag("ol"),
   EndTag("span"), Data(<<"a">>)}

NoiseCallback ==
  /\ rd_n < MaxNoiseEvents
  /\ \E e \in NoiseEvents : Callback(e)
  /\ UNCHANGED <<rd_chunk, rd_fed, rd_done, rd_out, nest_vars, un_vars, col_vars, rt_vars, ext_vars, fp_vars>>

\* lines 353-366: the input is exhausted or a callback has raised; read
\* was called with ignore_errors
NoiseReturn ==
  /\ ~rd_done
  /\ rd_done' = TRUE
  /\ \E ignore_errors \in BOOLEAN :
       LET r == read_result(rd, ignore_errors)
       IN rd_out' = [ignore_errors |-> ignore_errors, raised |-> r.raised,
                     contents |-> r.contents]
  /\ UNCHANGED <<rd, rd_n, rd_last, rd_pre, rd_chunk, rd_fed, nest_vars, un_vars, col_vars, rt_vars, ext_vars, fp_vars>>

InitNoise ==
  /\ NestIdle /\ UnnestIdle /\ ParsIdle /\ ExtensionIdle /\ ColorIdle /\ RoundTripIdle
  /\ \E partial \in BOOLEAN : ReaderStart(partial)
  /\ rd_chunk = <<>>
NextNoise == NoiseCallback \/ NoiseReturn
SpecNoise == InitNoise /\ [][NextNoise]_vars

\* ------------------------------------ SpecDepends: dependency_satisfied
\* the six relations get_depends documents
Relations == {">=", ">", "==", "<=", "<", "!="}
Versions == {<<0, 6>>, <<0, 6, 1>>, <<0, 7>>, <<1, 0>>}
DependsCheck ==
  /\ ~dep.done
  /\ dep' = [dep EXCEPT !.done = TRUE, !.result = dependency_satisfied(dep.ext, dep.dep)]
  /\ UNCHANGED <<ext, app, nest_vars, un_vars, rd_vars, col_vars, rt_vars, fp_vars>>
InitDepends ==
  /\ NestIdle /\ UnnestIdle /\ ParsIdle /\ ReaderIdle /\ ColorIdle /\ RoundTripIdle /\ ObjectIdle
  /\ \E e \in {NoExtension} \cup {ExtensionOf(v) : v \in Versions},
        rel \in Relations, version \in Versions :
       dep = [ext |-> e, dep |-> Dep("x", rel, version), done |-> FALSE, result |-> FALSE]
NextDepends == DependsCheck
SpecDepends == InitDepends /\ [][NextDepends]_vars

\* ----------------------------------------- SpecExtension: Extension.enable
Windows == 1..MaxWindows
\* what get_depends of an extension may return: its default, and
\* dependencies on another extension
DependsChoices ==
  {Dep("keepnote", ">=", <<0, 6, 1>>), Dep("keepnote", "<", <<0, 6, 1>>),
   Dep("x", "==", <<1, 0>>), Dep("x", "!=", <<1, 0>>)}
RECURSIVE DependsLists(_)
DependsLists(n) ==
  IF n = 0 THEN {<<>>}
  ELSE LET shorter == DependsLists(n - 1)
       IN shorter \cup {Append(l, d) : l \in {t \in shorter : Len(t) = n - 1}, d \in DependsChoices}
Applications ==
  {[name \in {"keepnote", "x"} |-> IF name = "keepnote" THEN ExtensionOf(k) ELSE x] :
   k \in {<<0, 6>>, <<0, 7>>}, x \in {NoExtension, ExtensionOf(<<1, 0>>)}}

ExtEnable ==
  /\ \E flag \in BOOLEAN :
       ext' = [ext EXCEPT !.op = "enable", !.flag = flag, !.window = 0,
                          !.out = enable(ext.out.obj, app, ext.depends, flag)]
  /\ UNCHANGED <<app, dep, nest_vars, un_vars, rd_vars, col_vars, rt_vars, fp_vars>>
ExtNewWindow ==
  /\ \E w \in Windows :
       ext' = [ext EXCEPT !.op = "on_new_window", !.flag = FALSE, !.window = w,
                          !.out = on_new_window(ext.out.obj, w)]
  /\ UNCHANGED <<app, dep, nest_vars, un_vars, rd_vars, col_vars, rt_vars, fp_vars>>
ExtCloseWindow ==
  /\ \E w \in Windows :
       ext' = [ext EXCEPT !.op = "on_close_window", !.flag = FALSE, !.window = w,
                          !.out = on_close_window(ext.out.obj, w)]
  /\ UNCHANGED <<app, dep, nest_vars, un_vars, rd_vars, col_vars, rt_vars, fp_vars>>
InitExtension ==
  /\ NestIdle /\ UnnestIdle /\ ParsIdle /\ ReaderIdle /\ ColorIdle /\ RoundTripIdle /\ DependsIdle
  /\ app \in Applications
  /\ \E depends \in DependsLists(MaxDepends) :
       ext = [depends |-> depends, op |-> "", flag |-> FALSE, window |-> 0,
              out |-> Outcome(ExtensionInit, "", FALSE, {})]
NextExtension == ExtEnable \/ ExtNewWindow \/ ExtCloseWindow
SpecExtension == InitExtension /\ [][NextExtension]_vars

\* ------------------------------------------- SpecPars: find_paragraphs
\* The items of a text buffer's contents: text with and without newlines
\* and empty text, an anchor, a font tag, indent tags of both types.
ParItems ==
  {Text(<<>>), Text(<<"a">>), Text(<<"a", "\n">>), Text(<<"\n", "b">>),
   Anchor(RichTextHorizontalRule),
   Begin(RichTextModTag("bold")), End(RichTextModTag("bold")),
   Begin(RichTextIndentTag(1, "bullet")), End(RichTextIndentTag(1, "bullet")),
   Begin(RichTextIndentTag(1, "none")), End(RichTextIndentTag(1, "none"))}

\* the generator consumes one more item of its input
ParsFeed ==
  /\ ~fp_done /\ ~fp.err
  /\ Len(fp_in) < MaxParItems
  /\ \E item \in ParItems :
       /\ fp_in' = Append(fp_in, item)
       /\ fp' = fp_item(fp, item)
  /\ UNCHANGED <<fp_done, nest_vars, un_vars, rd_vars, col_vars, rt_vars, ext_vars>>

\* the input is exhausted: lines 255-259 run and the generator stops
ParsFinish ==
  /\ ~fp_done /\ ~fp.err
  /\ fp' = fp_finish(fp)
  /\ fp_done' = TRUE
  /\ UNCHANGED <<fp_in, nest_vars, un_vars, rd_vars, col_vars, rt_vars, ext_vars>>

InitPars ==
  /\ NestIdle /\ UnnestIdle /\ ExtensionIdle /\ ReaderIdle /\ ColorIdle /\ RoundTripIdle
  /\ fp_in = <<>> /\ fp = FindParInit /\ fp_done = FALSE
NextPars == ParsFeed \/ ParsFinish
SpecPars == InitPars /\ [][NextPars]_vars

\* ----------------------------------------------- claims on SpecNest
IsIndentBegin(item) == item.k = "begin" /\ IsIndentTag(item.tag)
IsIndentEnd(item) == item.k = "end" /\ IsIndentTag(item.tag)
CountIf(seq, P(_)) == Cardinality({i \in 1..Len(seq) : P(seq[i])})

\* C3: when nest_indent_tags has run to completion its depth counter is 0 and
\* its output holds as many End(Indent) events as Begin(Indent) events.
C3_DepthBalanced ==
  nest_done =>
    /\ nest.indent = 0
    /\ CountIf(nest.out, IsIndentEnd) = CountIf(nest.out, IsIndentBegin)

\* a completed run that opened a nested level and more than one list
C3_Witness ==
  /\ nest_done
  /\ CountIf(nest.out, IsIndentBegin) >= 3
  /\ \E i \in 1..Len(nest_in) : IsIndentBegin(nest_in[i]) /\ nest_in[i].tag.n = 2

\* The open indent levels after a stream of events, -1 once an indent event
\* came out of order: Begin(Indent(k)) is in order when exactly k-1 levels
\* are open, End(Indent(k)) when k is the innermost open level.
RECURSIVE OpenLevels(_, _)
OpenLevels(d, out) ==
  IF out = <<>> \/ d < 0 THEN d
  ELSE LET item == Head(out) IN
       IF IsIndentBegin(item)
       THEN OpenLevels(IF item.tag.n = d + 1 THEN d + 1 ELSE -1, Tail(out))
       ELSE IF IsIndentEnd(item)
       THEN OpenLevels(IF item.tag.n = d /\ d > 0 THEN d - 1 ELSE -1, Tail(out))
       ELSE OpenLevels(d, Tail(out))

\* C4: in every prefix of the output of nest_indent_tags the indent events
\* are properly nested, the open levels being exactly 1..d, and d is the
\* generator's depth counter.
C4_ProperlyNested == OpenLevels(0, nest.out) = nest.indent

\* an output that went down two levels, came back to level 1 and opened
\* level 2 again
C4_Witness ==
  /\ nest.indent = 2
  /\ CountIf(nest.out, IsIndentEnd) >= 1
  /\ CountIf(nest.out, IsIndentBegin) >= 3

\* A valid flat-indent input (or a prefix of one): every Begin(Indent(n)) has
\* n >= 1 and no Begin(Indent) comes while an earlier one still waits for
\* its End(Indent(n)).  open is the level that waits, 0 for none, -1 once
\* the input is invalid.
RECURSIVE FlatScan(_, _)
FlatScan(open, contents) ==
  IF contents = <<>> \/ open < 0 THEN open
  ELSE LET item == Head(contents) IN
       IF IsIndentBegin(item)
       THEN FlatScan(IF open = 0 /\ item.tag.n >= 1 THEN item.tag.n ELSE -1,
                     Tail(contents))
       ELSE IF IsIndentEnd(item) /\ item.tag.n = open
       THEN FlatScan(0, Tail(contents))
       ELSE FlatScan(open, Tail(contents))
ValidFlat(contents) == FlatScan(0, contents) >= 0

\* C5: on a valid flat-indent input, with text, anchors and other begin/end
\* events interleaved, the assertions of nest_indent_tags never fail.
C5_AssertHolds == ValidFlat(nest_in) => ~nest.err

\* a valid input on which branch (A) had to close a deeper level before the
\* next Begin(Indent) was yielded
C5_Witness ==
  /\ ValidFlat(nest_in)
  /\ \E i \in 1..Len(nest_in), j \in 1..Len(nest_in) :
       /\ i < j
       /\ IsIndentBegin(nest_in[i]) /\ IsIndentBegin(nest_in[j])
       /\ nest_in[i].tag.n > nest_in[j].tag.n
  /\ nest_done

\* what the generator yielded while it consumed its last item
Yielded(before, after) == SubSeq(after.out, Len(before.out) + 1, Len(after.out))
\* End(Indent(hi)), ..., End(Indent(lo + 1))
EndsDownTo(hi, lo) == [i \in 1..(hi - lo) |-> End(RichTextIndentTag(hi - i + 1, "none"))]
\* C19: consuming End(Indent(n)) yields nothing.  When the item after it
\* is text or an anchor, the ends of all open levels d, ..., 1 are yielded
\* before it and it comes out at depth 0; when it is Begin(Indent(m)) with
\* m < d exactly the levels d, ..., m+1 are closed and the depth is m; when
\* it is Begin(Indent(m)) with m = d nothing is yielded.
C19_DeferredClose ==
  [][(Len(nest_in') = Len(nest_in) + 1) =>
       LET item == Last(nest_in')
           d == nest.indent
       IN /\ IsIndentEnd(item) => Yielded(nest, nest') = <<>> /\ nest'.indent = d
          /\ (nest_in # <<>> /\ IsIndentEnd(Last(nest_in))) =>
               /\ item.k \in {"text", "anchor"} =>
                    /\ Yielded(nest, nest') = Append(EndsDownTo(d, 0), item)
                    /\ nest'.indent = 0
               /\ (IsIndentBegin(item) /\ item.tag.n < d) =>
                    /\ Yielded(nest, nest') = EndsDownTo(d, item.tag.n)
                    /\ nest'.indent = item.tag.n
               /\ (IsIndentBegin(item) /\ item.tag.n = d) =>
                    /\ Yielded(nest, nest') = <<>>
                    /\ nest'.indent = d]_vars
\* text that follows the end of a level-2 item, and a level-1 item that
\* follows it
C19_Witness ==
  \E i \in 1..(Len(nest_in) - 2) :
    /\ IsIndentBegin(nest_in[i]) /\ nest_in[i].tag.n = 2
    /\ IsIndentEnd(nest_in[i + 1])
    /\ nest_in[i + 2].k = "text" \/ (IsIndentBegin(nest_in[i + 2]) /\ nest_in[i + 2].tag.n = 1)
    /\ ~nest.err /\ CountIf(nest.out, IsIndentEnd) >= 1

IsIndentEvent(item) == IsIndentBegin(item) \/ IsIndentEnd(item)
NotIndentEvent(item) == ~IsIndentEvent(item)
\* C20: after every item consumed, the events of the output that are not
\* the begin or end of an indent tag are the events of the input consumed so
\* far that are not, unchanged and in order; such an item is yielded while
\* it is consumed, as the last event yielded for it.
C20_PassThrough ==
  /\ [](SelectSeq(nest.out, NotIndentEvent) = SelectSeq(nest_in, NotIndentEvent))
  /\ [][(Len(nest_in') = Len(nest_in) + 1 /\ NotIndentEvent(Last(nest_in'))) =>
          /\ Yielded(nest, nest') # <<>>
          /\ Last(nest'.out) = Last(nest_in')]_vars
\* marked text inside a list item, after an item that was closed
C20_Witness ==
  /\ CountIf(nest_in, NotIndentEvent) >= 3
  /\ \E i \in 1..Len(nest_in) : nest_in[i].k = "begin" /\ ~IsIndentTag(nest_in[i].tag)
  /\ \E i \in 1..Len(nest_in) : nest_in[i].k = "end" /\ ~IsIndentTag(nest_in[i].tag)
  /\ CountIf(nest.out, IsIndentBegin) >= 1

\* ---------------------------------------------- claims on SpecUnnest
IsOl(name) == name = S_ol
IsLi(name) == StartsWith(name, S_li)
IsList(name) == IsOl(name) \/ IsLi(name)
OpenLists == SelectSeq(un_open, IsList)

\* ol and li elements alternate in the open elements: every open li is
\* directly in an ol, every nested ol directly in an li
ListsAlternate ==
  \A i \in 1..Len(OpenLists) : IsOl(OpenLists[i]) <=> (i % 2 = 1)

IsLiClose(item) == item.k = "endstr" /\ IsLi(item.s)

\* C7 as stated: after every consumed event other than the close/resume
\* transition of a list item, len(li_stack) equals the indent counter.
C7_StackIsDepth ==
  (un_n > 0 /\ ~IsLiClose(un_last)) => Len(un.li_stack) = un.indent

\* C7: indent counts the open ol elements and li_stack the open li
\* elements; where ol and li alternate the two are equal while a list item
\* is the innermost open list element (or no list is open), and li_stack
\* is one shorter while an ol is, that is, after an ol opened or one of its
\* items closed.
C7_StackTracksItems ==
  /\ un.indent = CountIf(un_open, IsOl)
  /\ Len(un.li_stack) = CountIf(un_open, IsLi)
  /\ ListsAlternate =>
       Len(un.li_stack) = IF OpenLists # <<>> /\ IsOl(Last(OpenLists))
                          THEN un.indent - 1 ELSE un.indent

\* a nested list has opened inside an item: two levels deep, one item open
C7_Witness ==
  /\ ListsAlternate
  /\ un.indent = 2 /\ Len(un.li_stack) = 1
  /\ un_last = BeginStr(S_ol)

\* The indent tag that is open after a stream of events ("" for none), and
\* whether the indent events so far were flat and balanced: a beginstr of an
\* indent tag came only while none was open, an endstr of one only while
\* that very tag was open.
IndentScanInit == [open |-> <<>>, ok |-> TRUE]
IndentScanItem(sc, item) ==
  IF item.k = "beginstr" /\ StartsWith(item.s, S_indent_) THEN
    [open |-> item.s, ok |-> sc.ok /\ sc.open = <<>>]
  ELSE IF item.k = "endstr" /\ StartsWith(item.s, S_indent_) THEN
    [open |-> <<>>, ok |-> sc.ok /\ sc.open = item.s]
  ELSE sc
IndentScan(out) == FoldAll(IndentScanItem, IndentScanInit, out)
\* the tags "indent <level> <type>" of the open li elements, outermost
\* first: the level is the number of ol elements open around the li
RECURSIVE OpenItemTags(_, _)
OpenItemTags(open, n) ==
  IF n = 0 THEN <<>>
  ELSE IF IsLi(open[n])
  THEN Append(OpenItemTags(open, n - 1),
              IndentTagStr(CountIf(SubSeq(open, 1, n), IsOl), From(open[n], 4)))
  ELSE OpenItemTags(open, n - 1)
\* C21: on a well-nested input the indent tags of the output are flat and
\* balanced after every item consumed: no indent tag opens while one is
\* open, every endstr of an indent tag names the tag that is open, the tag
\* that is open is the tag (level and type) of the innermost open list
\* item, so leaving a nested item re-opens its parent's tag, and no indent
\* tag is open once every element of the input is closed.
C21_FlatBalanced ==
  ~un.err =>
    LET sc == IndentScan(un.out)
        items == OpenItemTags(un_open, Len(un_open))
    IN /\ sc.ok
       /\ sc.open = IF items = <<>> THEN <<>> ELSE Last(items)
       /\ un_open = <<>> => sc.open = <<>>
\* a nested item was left and the tag of its parent is open again
C21_Witness ==
  /\ un_n > 0 /\ IsLiClose(un_last) /\ ~un.err
  /\ CountIf(un_open, IsLi) = 1 /\ CountIf(un_open, IsOl) = 2
  /\ Last(un.out).k = "beginstr" /\ StartsWith(Last(un.out).s, S_indent_)

\* ------------------------------------------------ claims on SpecRead
\* the level in the tag name "indent <level> <parType>"
IsIndentName(name) == StartsWith(name, S_indent_)
IndentLevel(name) == IntOf(Split(name, " ")[2])
IsIndentStr(item) == item.k \in {"beginstr", "endstr"} /\ IsIndentName(item.s)

\* C6: no indent tag of level 0 or lower is emitted as a begin/end event;
\* here for the read path: every "indent <level> <parType>" tag that read
\* returns, for any html, has level >= 1.
C6_LevelAtLeastOne ==
  rd_done =>
    \A i \in 1..Len(rd_out) : IsIndentStr(rd_out[i]) => IndentLevel(rd_out[i].s) >= 1

\* ------------------------------------------------ claims on SpecData
IsWs(c) == c \in {"\n", " "}
Blanked(data) == [i \in 1..Len(data) |-> IF IsWs(data[i]) THEN " " ELSE data[i]]

\* A chunk with every maximal run of newlines and spaces replaced by one
\* space; drop_leading says whether a leading run goes altogether.
Collapsed(data, drop_leading) ==
  LET keep(i) == \/ ~IsWs(data[i])
                 \/ /\ i = 1 \/ ~IsWs(data[i - 1])
                    /\ ~(i = 1 /\ drop_leading)
  IN Pick(Blanked(data), SelectSeq(Indices(data), keep))

HandledData == rd_last.k = "data" /\ (rd.partial \/ rd_pre.within_body)

ColorPrefix == IF col_in.prop = S_color THEN S_fg_color_ ELSE S_bg_color_
\* the value of the style attribute of the first tag written
WrittenStyle == col.html[1].attrs[1].value

\* C10: "#abc" in a color or background-color declaration gives the tag its
\* value "#aabbcc", "#RRGGBB" gives it unchanged, and the color the writer
\* writes for a color tag ("#" and the first two digits of each channel)
\* gives, read again, that same 7-character value.
C10_ColorValues ==
  LET v == col_in.value IN
  /\ (col.stage = "parsed" /\ Len(v) = 4) =>
       col.names = <<ColorPrefix \o <<"#", v[2], v[2], v[3], v[3], v[4], v[4]>>>>
  /\ (col.stage = "parsed" /\ Len(v) = 7) => col.names = <<ColorPrefix \o v>>
  /\ col.stage = "reread" =>
       /\ WrittenStyle = col_in.prop \o <<":", " ">>
                          \o <<v[1], v[2], v[3], v[6], v[7], v[10], v[11]>>
       /\ col.names = <<ColorPrefix \o <<v[1], v[2], v[3], v[6], v[7], v[10], v[11]>>>>

\* a shorthand with three different digits has been parsed
C10_Witness ==
  /\ col.stage = "parsed"
  /\ col_in.value = <<"#", "0", "8", "f">>
  /\ col_in.prop = S_background_color
  /\ col.names = <<S_bg_color_ \o <<"#", "0", "0", "8", "8", "f", "f">>>>

\* ------------------------------------------- claims on SpecRoundTrip
IsBulletEvent(item) ==
  \/ item.k \in {"begin", "end"} /\ IsBulletTag(item.tag)
  \/ item.k \in {"beginstr", "endstr"} /\ item.s = S_bullet

\* the text of a stream outside its bullet spans
PlainText(contents, in_bullet) ==
  FoldAll(LAMBDA st, item :
            IF IsBulletEvent(item)
            THEN [st EXCEPT !.in_bullet = item.k \in {"begin", "beginstr"}]
            ELSE IF item.k = "text" /\ ~st.in_bullet
            THEN [st EXCEPT !.text = @ \o item.s]
            ELSE st,
          [in_bullet |-> in_bullet, text |-> <<>>], contents).text

\* C1: read applied to what write wrote for a stream S gives a stream whose
\* text, the bullets apart, is the text of S.
C1_TextPreserved ==
  rt.stage = "read" => PlainText(rt.back, FALSE) = PlainText(rt.contents, FALSE)

ParTypeStr(par) == IF par = "bullet" THEN S_bullet ELSE S_none
SpanOpen(item) ==
  \/ item.k = "begin" /\ IsIndentTag(item.tag)
  \/ item.k = "beginstr" /\ IsIndentName(item.s)
SpanClose(item) ==
  \/ item.k = "end" /\ IsIndentTag(item.tag)
  \/ item.k = "endstr" /\ IsIndentName(item.s)
Span(level, type, text, empty) ==
  [level |-> level, type |-> type, text |-> text, empty |-> empty]
SpanOf(item) ==
  IF item.k = "begin"
  THEN Span(item.tag.n, ParTypeStr(item.tag.par), <<>>, TRUE)
  ELSE Span(IndentLevel(item.s), Split(item.s, " ")[3], <<>>, TRUE)

\* the indent spans of a flat stream, in order: level, item type, the text
\* inside (the bullet apart) and whether nothing at all is inside
span_item(st, item) ==
  IF SpanOpen(item) THEN [st EXCEPT !.open = TRUE, !.cur = SpanOf(item)]
  ELSE IF SpanClose(item) THEN [st EXCEPT !.open = FALSE, !.spans = Append(@, st.cur)]
  ELSE IF ~st.open THEN st
  ELSE IF IsBulletEvent(item)
  THEN [st EXCEPT !.in_bullet = item.k \in {"begin", "beginstr"}, !.cur.empty = FALSE]
  ELSE IF item.k = "text" /\ ~st.in_bullet
  THEN [st EXCEPT !.cur.text = @ \o item.s, !.cur.empty = FALSE]
  ELSE [st EXCEPT !.cur.empty = FALSE]
IndentSpans(contents) ==
  FoldAll(span_item,
          [spans |-> <<>>, open |-> FALSE, in_bullet |-> FALSE,
           cur |-> Span(0, S_none, <<>>, TRUE)],
          contents).spans
SpanView(spans) ==
  [i \in 1..Len(spans) |-> [level |-> spans[i].level, type |-> spans[i].type,
                            text |-> spans[i].text]]

\* the paragraphs of a text, each with its newline; the last one is given a
\* newline when it has none, and a text of no character has no paragraph
ParTexts(text) ==
  LET st == FoldAll(LAMBDA a, c : IF c = "\n"
                                  THEN [out |-> Append(a.out, Append(a.cur, c)), cur |-> <<>>]
                                  ELSE [a EXCEPT !.cur = Append(@, c)],
                    [out |-> <<>>, cur |-> <<>>], text)
  IN IF st.cur # <<>> THEN Append(st.out, Append(st.cur, "\n")) ELSE st.out
\* a span, one paragraph a span
SpanPars(span) ==
  LET texts == ParTexts(span.text)
  IN [i \in 1..Len(texts) |-> [level |-> span.level, type |-> span.type, text |-> texts[i]]]
NonEmptySpans(spans) == SelectSeq(spans, LAMBDA sp : ~sp.empty)

IsBulletSpanAt(contents, i) ==
  /\ i + 2 <= Len(contents)
  /\ contents[i] = BeginStr(S_bullet)
  /\ contents[i + 1] = Text(BULLET_STR)
  /\ contents[i + 2] = EndStr(S_bullet)
IsBulletItemBegin(item) ==
  item.k = "beginstr" /\ IsIndentName(item.s) /\ Split(item.s, " ")[3] = S_bullet
HasGlyph(s) == \E i \in 1..Len(s) : s[i] = "*"
BulletedItems(ps) == CountIf(ps, LAMBDA p : p.par = "bullet")

\* C8: html written for a stream has no bullet glyph, and what read returns
\* for it has one bullet span (begin "bullet", text BULLET_STR, end "bullet")
\* for each bulleted item of the stream, directly after the begin event of
\* the item's indent tag, and the glyph nowhere else.
C8_BulletOnce ==
  rt.stage = "read" =>
    /\ \A i \in 1..Len(rt.html) : rt.html[i].k = "chr" => ~HasGlyph(rt.html[i].s)
    /\ CountIf(rt.back, LAMBDA item : item = BeginStr(S_bullet)) = BulletedItems(rt_pars)
    /\ CountIf(rt.back, LAMBDA item : item.k = "text" /\ HasGlyph(item.s))
         = BulletedItems(rt_pars)
    /\ \A i \in 1..Len(rt.back) :
         /\ rt.back[i] = BeginStr(S_bullet) =>
              i > 1 /\ IsBulletItemBegin(rt.back[i - 1]) /\ IsBulletSpanAt(rt.back, i)
         /\ IsBulletItemBegin(rt.back[i]) => IsBulletSpanAt(rt.back, i + 1)

\* ------------------------------------------------ claims on SpecTags
\* the index of the topmost entry of htmltag in a tag stack, 0 for none
MatchIndex(stack, htmltag) ==
  LET found == {j \in 1..Len(stack) : stack[j].tag = htmltag}
  IN IF found = {} THEN 0 ELSE CHOOSE j \in found : \A k \in found : k <= j
RootEntry == [tag |-> "None", ptr |-> Root]
\* the reader takes the callback: partial mode, or within body
Takes(r) == r.partial \/ r.within_body
IsUnknownTag(htmltag) == htmltag = "foo"

\* C11: an end tag the reader takes pops the tag stack down to and including
\* its matching open tag and sets the insertion point to the one active just
\* before that tag opened; a tag the reader does not know makes no DOM node,
\* and closed without ever being opened it changes neither the stack nor the
\* insertion point; the stack keeps its root entry.
C11_EndTagRestores ==
  [][(rd_n' = rd_n + 1 /\ Takes(rd)) =>
       LET e == rd_last'
           j == MatchIndex(rd.tag_stack, e.name)
       IN /\ (e.k = "end" /\ e.name \notin {"html", "body"} /\ j > 0) =>
               /\ rd'.tag_stack = SubSeq(rd.tag_stack, 1, j - 1)
               /\ rd'.dom_ptr = rd.tag_stack[j].ptr
          /\ (e.k \in {"start", "end"} /\ IsUnknownTag(e.name)) => rd'.dom = rd.dom
          /\ (e.k = "start" /\ IsUnknownTag(e.name)) => rd'.dom_ptr = rd.dom_ptr
          /\ (e.k = "end" /\ IsUnknownTag(e.name) /\ j = 0) =>
               rd'.tag_stack = rd.tag_stack /\ rd'.dom_ptr = rd.dom_ptr
          /\ rd'.tag_stack # <<>> /\ Head(rd'.tag_stack) = RootEntry]_vars

\* the tag stack, the insertion point and the DOM of a reader
ReaderView(r) == <<r.tag_stack, r.dom_ptr, r.dom>>
\* C16: </html> and </body> leave the tag stack, the insertion point and the
\* DOM as they are, in partial and in non-partial mode; any other end tag
\* leaves them as they are when the reader is not partial and has seen no
\* <body>
C16_HtmlBodyAbsorbed ==
  [][(rd_n' = rd_n + 1 /\ rd_last'.k = "end") =>
       /\ rd_last'.name \in {"html", "body"} => ReaderView(rd') = ReaderView(rd)
       /\ (rd_last'.name \notin {"html", "body"} /\ ~Takes(rd)) =>
            ReaderView(rd') = ReaderView(rd)]_vars

\* ------------------------------------------------------ claims on SpecNoise
\* the stream of a tree: the fixups after reading, its contents, un-nested
StreamOf(dom) == unnest_indent_tags(get_contents(process_dom_read(dom))).out
\* C13: an unknown text-align value raises HtmlError in its callback and
\* leaves the tree as the declarations before it built it; after a callback
\* has raised no further input is consumed; read without ignore_errors then
\* raises that error and returns no stream; read with ignore_errors raises
\* nothing and returns the stream of the tree built so far, fixups and
\* un-nesting applied
C13_ReadErrors ==
  /\ [](rd_done =>
         IF rd.err # "" /\ ~rd_out.ignore_errors
         THEN rd_out.raised = rd.err /\ rd_out.contents = <<>>
         ELSE rd_out.raised = "" /\ rd_out.contents = StreamOf(rd.dom))
  /\ [][/\ rd.err # "" => rd' = rd
        /\ (rd_n' = rd_n + 1 /\ rd_last' = BadAlign) =>
             rd'.err = "HtmlError" /\ rd'.dom = rd.dom
        /\ (rd_n' = rd_n + 1 /\ rd_last' = BadAlignAfterSize) =>
             /\ rd'.err = "HtmlError"
             /\ rd'.dom = handle_starttag(rd, "div",
                              Style(Declaration(S_font_size, <<"1", "2", "p", "t">>))).dom]_vars
C13_Witness ==
  /\ rd_done /\ rd.err = "HtmlError" /\ rd_out.ignore_errors
  /\ rd_out.raised = "" /\ rd_out.contents # <<>>

\* the start tag without its noise
Clean(e) ==
  IF e = StartTag("li", Style(Declaration(S_list_style_type, S_disc) \o <<";">>))
  THEN StartTag("li", ListStyle(S_disc))
  ELSE IF e = StartTag("span", Style(Declaration(S_font_size, <<"1", "2", "p", "t">>) \o <<";">>))
  THEN StartTag("span", Style(Declaration(S_font_size, <<"1", "2", "p", "t">>)))
  ELSE IF e.name = "img" THEN StartTag("img", <<>>)
  ELSE StartTag(e.name, <<>>)
\* the reader after the same input without the noise
WithoutNoise(r, e) == IF e \in NoiseRefs THEN r ELSE reader_event(r, Clean(e))
\* C14: a callback on noise (a width or height that is no number, a style
\* declaration that is unrecognized, empty, without ":" or followed by ";",
\* on span, div or li, an unknown entity or character reference) raises
\* nothing and leaves the tag stack, the insertion point and the DOM as the
\* same input without the noise leaves them
C14_NoiseIgnored ==
  [][(rd_n' = rd_n + 1 /\ rd_last' \in NoiseTags \cup NoiseRefs) =>
       /\ rd'.err = ""
       /\ ReaderView(rd') = ReaderView(WithoutNoise(rd, rd_last'))]_vars

\* ------------------------------------------------------ claims on SpecWrite
ExampleItem ==
  <<Begin(RichTextIndentTag(1, "bullet")), Text(S_item_one \o <<"\n">>),
    End(RichTextIndentTag(1, "bullet"))>>
ExampleHtml ==
  StyleTag("li", S_list_style_type \o <<":", " ">> \o S_disc)
IsBr(tok) == tok.k \in {"start", "startend"} /\ tok.name = "br"
\* C12: a partial write of one bulleted item at level 1, "item one" ended by
\* its newline, gives exactly
\* <ol><li style="list-style-type: disc">item one</li>\n</ol>\n : the item's
\* newline is consumed by </li> and no <br/> is written for it
C12_ExampleItem ==
  (rt.stage = "written" /\ rt.partial /\ rt.contents = ExampleItem) =>
    /\ rt.err = ""
    /\ rt.html = <<StartTag("ol", <<>>)>> \o ExampleHtml \o Chars(S_item_one)
                   \o <<EndTag("li"), Chr("\n"), EndTag("ol"), Chr("\n")>>
    /\ \A i \in 1..Len(rt.html) : ~IsBr(rt.html[i])
C12_Witness ==
  rt.stage = "written" /\ rt.partial /\ rt.contents = ExampleItem /\ rt.html # <<>>

\* the stream with the unknown tag replaced by one the writer knows and no
\* stream of SpecWrite holds
KnownTag == RichTextModTag("underline")
AsKnown(contents) ==
  [i \in 1..Len(contents) |->
     IF contents[i] = Begin(UnknownTag) THEN Begin(KnownTag)
     ELSE IF contents[i] = End(UnknownTag) THEN End(KnownTag)
     ELSE contents[i]]
HasUnknown(contents) == \E i \in 1..Len(contents) : contents[i] = Begin(UnknownTag)
\* what is written before the opening of the element of KnownTag
BeforeOpening(html) ==
  LET at == {i \in 1..Len(html) : html[i] = StartTag("u", <<>>)}
  IN IF at = {} THEN html ELSE SubSeq(html, 1, (CHOOSE i \in at : \A j \in at : i <= j) - 1)
EndsWith(s, t) == Len(s) >= Len(t) /\ SubSeq(s, Len(s) - Len(t) + 1, Len(s)) = t
RECURSIVE Compare(_, _)
Compare(a, b) ==
  IF a = <<>> /\ b = <<>> THEN 0
  ELSE IF a = <<>> THEN -1
  ELSE IF b = <<>> THEN 1
  ELSE IF Head(a) < Head(b) THEN -1
  ELSE IF Head(a) > Head(b) THEN 1
  ELSE Compare(Tail(a), Tail(b))
\* the version a stands in relation rel to the version b
Related(rel, a, b) ==
  CASE rel = ">=" -> Compare(a, b) >= 0
    [] rel = ">" -> Compare(a, b) > 0
    [] rel = "==" -> Compare(a, b) = 0
    [] rel = "<=" -> Compare(a, b) <= 0
    [] rel = "<" -> Compare(a, b) < 0
    [] rel = "!=" -> Compare(a, b) # 0
\* C17: dependency_satisfied(ext, (name, rel, version)) is True exactly when
\* ext.version stands in relation rel to version, for each of the six
\* relations (so False for "!=" on equal versions), and for ext None exactly
\* when rel is "!="
C17_RelationHolds ==
  dep.done =>
    dep.result = IF dep.ext.none THEN dep.dep.rel = "!="
                 ELSE Related(dep.dep.rel, dep.ext.version, dep.dep.version)

\* -------------------------------------------------- claims on SpecExtension
\* a dependency of get_depends fails the application's check
Unmet(a, depends) ==
  \E i \in 1..Len(depends) : ~dependency_satisfied(a[depends[i].name], depends[i])
IsParBegin(item) == item.k = "begin" /\ IsParTag(item.tag)
IsParEnd(item) == item.k = "end" /\ IsParTag(item.tag)
\* the text holds no newline before its last character
NewlineOnlyLast(text) == \A i \in 1..(Len(text) - 1) : text[i] # "\n"
\* The paragraph spans of a stream: how many are open, whether the last
\* event was text ending in a newline (its End(Paragraph) is due), and
\* whether the structure held so far.
ParScanInit == [open |-> 0, due |-> FALSE, ok |-> TRUE]
ParScanItem(sc, item) ==
  IF IsParBegin(item) THEN
    [open |-> sc.open + 1, due |-> FALSE, ok |-> sc.ok /\ ~sc.due /\ sc.open = 0]
  ELSE IF IsParEnd(item) THEN
    [open |-> sc.open - 1, due |-> FALSE, ok |-> sc.ok /\ sc.open = 1]
  ELSE IF item.k = "text" THEN
    [open |-> sc.open, due |-> EndsWithNewline(item.s),
     ok |-> sc.ok /\ ~sc.due /\ sc.open = 1 /\ NewlineOnlyLast(item.s)]
  ELSE IF item.k = "anchor" THEN
    [open |-> sc.open, due |-> FALSE, ok |-> sc.ok /\ ~sc.due /\ sc.open = 1]
  ELSE [sc EXCEPT !.ok = sc.ok /\ ~sc.due]
ParScan(out) == FoldAll(ParScanItem, ParScanInit, out)
\* C22: on every input, empty text events included, find_paragraphs yields
\* its output without raising; every text and anchor of it lies in exactly
\* one open paragraph span, spans do not nest, a text piece holds at most
\* one newline, as its last character and directly followed by
\* End(Paragraph), and no span is open when the stream ends
C22_ParagraphStructure ==
  LET sc == ParScan(fp.out)
  IN /\ ~fp.err
     /\ sc.ok /\ ~sc.due
     /\ fp_done => sc.open = 0

\* the indent tags open after the items of an input, outermost first
OpenIndentsItem(open, item) ==
  IF IsIndentBegin(item) THEN Append(open, item.tag)
  ELSE IF IsIndentEnd(item) /\ open # <<>> THEN Front(open)
  ELSE open
OpenIndents(contents) == FoldAll(OpenIndentsItem, <<>>, contents)
\* the declared item type of the indent span that encloses the next item,
\* "none" outside every indent span
EnclosingType(contents) ==
  IF OpenIndents(contents) = <<>> THEN "none" ELSE Last(OpenIndents(contents)).par
\* what find_paragraphs yielded while it consumed its last item
ParsYielded(before, after) == SubSeq(after.out, Len(before.out) + 1, Len(after.out))
\* C23: every paragraph that opens while a text or anchor item is consumed
\* has the item type of the indent span that encloses the item, and the
\* type none when no indent span encloses it
C23_KindFollowsIndent ==
  [][(Len(fp_in') = Len(fp_in) + 1) =>
       LET y == ParsYielded(fp, fp')
       IN \A i \in 1..Len(y) :
            IsParBegin(y[i]) => y[i].tag.par = EnclosingType(fp_in)]_vars

IsParEvent(item) == IsParBegin(item) \/ IsParEnd(item)
NotParEvent(item) == ~IsParEvent(item)
\* the stream without its paragraph events, adjacent text pieces joined
WithoutPars(out) == MergeText(SelectSeq(out, NotParEvent))
\* C24: while the generator runs, what it has yielded, followed by the
\* events it holds back in others, is the input consumed so far once the
\* paragraph events are removed and adjacent text is joined; when it has
\* finished the same holds of its output alone: no event is dropped,
\* duplicated, changed or moved.  Stated of the runs that do not raise.
C24_OnlyAddsParagraphs ==
  ~fp.err =>
    WithoutPars(fp.out \o (IF fp_done THEN <<>> ELSE fp.others)) = MergeText(fp_in)
\* a finished run that split a text, held back a tag and yielded it later
C24_Witness ==
  /\ fp_done /\ ~fp.err
  /\ CountIf(fp.out, IsParBegin) >= 2
  /\ \E i \in 1..Len(fp_in) : fp_in[i] = Text(<<"\n", "b">>)
  /\ \E i \in 1..Len(fp_in) : fp_in[i].k \in {"begin", "end"}

\* ------------------------------------------- claims on process_dom_read
IsOlNode(d, n) == IsTagNameDom(d, n) /\ d[n].text = S_ol
IsLiNode(d, n) == IsTagNameDom(d, n) /\ StartsWith(d[n].text, S_li)
\* an ol that has a preceding sibling; a list item whose last child is no ol
OlAfterSibling(d, n) == IsOlNode(d, n) /\ Head(d[d[n].parent].ch) # n
LiOpenEnded(d, n) == IsLiNode(d, n) /\ ~IsOlNode(d, last_child(d, n))
\* the children of node n after the fixups (ch2) against its children
\* before (in the tree d of size Len(d)): the old children are all there in
\* their order; a new node stands directly before an ol that had a
\* preceding sibling, or at the end of an open-ended list item, and nowhere
\* else; every such ol and every such item has its new node
ChildrenFixed(d, n, ch2) ==
  LET old == Len(d)
      IsNew(c) == c > old
  IN /\ SelectSeq(ch2, LAMBDA c : ~IsNew(c)) = d[n].ch
     /\ \A k \in 1..Len(ch2) :
          IF IsNew(ch2[k])
          THEN \/ k < Len(ch2) /\ ~IsNew(ch2[k + 1]) /\ OlAfterSibling(d, ch2[k + 1])
               \/ k = Len(ch2) /\ LiOpenEnded(d, n)
          ELSE OlAfterSibling(d, ch2[k]) => (k > 1 /\ IsNew(ch2[k - 1]))
     /\ LiOpenEnded(d, n) => (ch2 # <<>> /\ IsNew(Last(ch2)))
\* C25: process_dom_read of a tree the reader built leaves every node of
\* the tree as it is and in its place, and adds newline text nodes only:
\* one directly before each ol that has a preceding sibling, one as last
\* child of each list item whose last child is no ol (an item without
\* children included), and no other.
C25_PostReadFixups ==
  rd_done =>
    LET d == rd.dom
        d2 == process_dom_read(d)
    IN /\ Len(d2) = Len(d) + Cardinality({n \in 2..Len(d) : OlAfterSibling(d, n)})
                            + Cardinality({n \in 2..Len(d) : LiOpenEnded(d, n)})
       /\ \A n \in 1..Len(d) :
            /\ [d2[n] EXCEPT !.ch = <<>>] = [d[n] EXCEPT !.ch = <<>>]
            /\ ChildrenFixed(d, n, d2[n].ch)
       /\ \A n \in (Len(d) + 1)..Len(d2) :
            /\ [d2[n] EXCEPT !.parent = 0] = TextDom(<<"\n">>)
            /\ d2[n].parent \in 1..Len(d) /\ \E k \in 1..Len(d2[d2[n].parent].ch) : d2[d2[n].parent].ch[k] = n
       /\ rd.err = "" => rd_out = unnest_indent_tags(get_contents(d2)).out
\* a list after text, with an item that ends in a nested list and one that
\* does not
C25_Witness ==
  /\ rd_done
  /\ \E n \in 2..Len(rd.dom) : OlAfterSibling(rd.dom, n)
  /\ \E n \in 2..Len(rd.dom) : IsLiNode(rd.dom, n) /\ ~LiOpenEnded(rd.dom, n)

\* ------------------------------------------ claims on prepare_dom_write
\* the nodes of the tree below node n, n included
RECURSIVE Subtree(_, _)
Subtree(d, n) == {n} \cup UNION {Subtree(d, d[n].ch[k]) : k \in 1..Len(d[n].ch)}
\* node n has an indent element above it
RECURSIVE UnderIndent(_, _)
UnderIndent(d, n) ==
  LET p == d[n].parent
  IN p # 0 /\ ((IsTagDom(d, p) /\ IsIndentTag(d[p].tag)) \/ UnderIndent(d, p))
\* the tree the first walk has to leave, as a stream: a paragraph under an
\* indent is a list item of its kind, any other paragraph is its children,
\* an indent under an indent is alone in a list item of kind none
RECURSIVE ParagraphsGone(_, _, _), ParagraphGone(_, _, _)
ParagraphGone(d, n, within) ==
  IF ~IsTagDom(d, n) THEN NodeContents(d, n)
  ELSE IF IsParTag(d[n].tag) THEN
    IF within
    THEN <<Begin(LiHtmlTagDom(d[n].tag.par).tag)>> \o ParagraphsGone(d, d[n].ch, within)
           \o <<End(LiHtmlTagDom(d[n].tag.par).tag)>>
    ELSE ParagraphsGone(d, d[n].ch, within)
  ELSE IF IsIndentTag(d[n].tag) THEN
    LET inner == <<Begin(d[n].tag)>> \o ParagraphsGone(d, d[n].ch, TRUE) \o <<End(d[n].tag)>>
    IN IF within
       THEN <<Begin(LiHtmlTagDom("none").tag)>> \o inner \o <<End(LiHtmlTagDom("none").tag)>>
       ELSE inner
  ELSE <<Begin(d[n].tag)>> \o ParagraphsGone(d, d[n].ch, within) \o <<End(d[n].tag)>>
ParagraphsGone(d, ids, within) ==
  FoldAll(LAMBDA acc, n : acc \o ParagraphGone(d, n, within), <<>>, ids)
\* the tree write builds of the buffer's content (the empty tree when the
\* stream transforms raise)
WrittenDom ==
  LET c == write_contents(rt.contents)
  IN IF c.err THEN EmptyDom ELSE TextBufferDom(c.out)
\* C26: after the first walk of prepare_dom_write no paragraph element is
\* left in the tree: each one under an indent has become a list item of the
\* paragraph's kind that holds its children in order, each other one has
\* given its children, in order, to its parent at its place; and every
\* indent element under an indent element is the only child of a list item
\* of kind none.
C26_NoParagraphLeft ==
  rt.stage # "edit" =>
    LET d == WrittenDom
        d1 == walk_par(d, Root, FALSE)
    IN /\ \A n \in Subtree(d1, Root) :
            /\ ~(IsTagDom(d1, n) /\ IsParTag(d1[n].tag))
            /\ (IsTagDom(d1, n) /\ IsIndentTag(d1[n].tag) /\ UnderIndent(d1, n)) =>
                 LET p == d1[n].parent
                 IN IsLiHtmlTagDom(d1, p) /\ d1[p].tag.par = "none" /\ d1[p].ch = <<n>>
       /\ get_contents(d1) = ParagraphsGone(d, d[Root].ch, FALSE)
\* node n is a bullet element or lies below one
RECURSIVE InBulletSpan(_, _)
InBulletSpan(d, n) ==
  n # 0 /\ ((IsTagDom(d, n) /\ IsBulletTag(d[n].tag)) \/ InBulletSpan(d, d[n].parent))
\* the text and anchor nodes of the tree that are in no bullet span
KeptLeaves(d) ==
  {n \in Subtree(d, Root) : (IsTextDom(d, n) \/ IsAnchorDom(d, n)) /\ ~InBulletSpan(d, n)}
\* text b is text a without some newlines at its start and at its end
LostNewlinesOnly(a, b) ==
  \E i \in 1..(Len(a) + 1), j \in 0..Len(a) :
    /\ b = SubSeq(a, i, j)
    /\ \A k \in 1..Len(a) : (k < i \/ k > j) => a[k] = "\n"
\* C27: after the second walk of prepare_dom_write the tree has no bullet
\* element and no tag element without children; the nodes gone are the
\* bullet elements with all below them and the tag elements that are left
\* with nothing below them; a text or anchor node outside the bullet spans
\* stays in the tree and in its order (nodes are numbered as they were
\* built), an anchor as it is, a text without at most some newline
\* characters.
C27_BulletsAndEmptyTagsGone ==
  rt.stage # "edit" =>
    LET d1 == walk_par(WrittenDom, Root, FALSE)
        d2 == prepare_dom_write(WrittenDom)
        kept == KeptLeaves(d1)
    IN /\ Len(d2) = Len(d1)
       /\ \A n \in Subtree(d2, Root) :
            IsTagDom(d2, n) => ~IsBulletTag(d2[n].tag) /\ d2[n].ch # <<>>
       /\ \A n \in Subtree(d1, Root) \ {Root} :
            n \in Subtree(d2, Root) <=>
              /\ ~InBulletSpan(d1, n)
              /\ IsTagDom(d1, n) => Subtree(d1, n) \cap kept # {}
       /\ \A n \in kept :
            /\ d2[n].kind = d1[n].kind /\ d2[n].anchor = d1[n].anchor
            /\ LostNewlinesOnly(d1[n].text, d2[n].text)
       /\ SelectSeq(get_contents(d2), LAMBDA e : e.k = "anchor" \/ e.k = "text")
            = [i \in 1..Cardinality(kept) |->
                 NodeContents(d2, CHOOSE n \in kept :
                                    Cardinality({m \in kept : m < n}) = i - 1)[1]]
\* a bulleted list item that holds its glyph only goes with the list around
\* it, and a text loses a newline
C27_Witness ==
  /\ rt.stage = "written"
  /\ LET d1 == walk_par(WrittenDom, Root, FALSE)
         d2 == prepare_dom_write(WrittenDom)
     IN /\ \E n \in Subtree(d1, Root) :
             /\ IsTagDom(d1, n) /\ ~IsBulletTag(d1[n].tag) /\ d1[n].ch # <<>>
             /\ n \notin Subtree(d2, Root)
        /\ \E n \in Subtree(d1, Root) : IsTagDom(d1, n) /\ IsBulletTag(d1[n].tag)
        /\ \E n \in KeptLeaves(d1) : d2[n].text # d1[n].text
        /\ \E n \in Subtree(d2, Root) : IsLiHtmlTagDom(d2, n)

\* ------------------------------------------------ claims on write_dom
HtmlElementNames == {"b", "i", "u", "nobr", "span", "div", "ol", "li"}
\* what is written at the begin and at the end of element n is an opening
\* and a closing tag of one name, or nothing both times; the newline that
\* follows </ol> and </li> is text
TagPairMatches(d, n) ==
  LET b == write_tag_begin(d, n).out
      e == SelectSeq(write_tag_end(d, n), LAMBDA t : t.k # "chr")
  IN \/ b = <<>> /\ e = <<>>
     \/ /\ Len(b) = 1 /\ b[1].k = "start" /\ b[1].name \in HtmlElementNames
        /\ e = <<EndTag(b[1].name)>>
\* the open tags after the output html, innermost last; <<"!">> once a
\* closing tag did not close the innermost open tag
OpenTagsItem(open, t) ==
  IF open = <<"!">> THEN open
  ELSE IF t.k = "start" THEN Append(open, t.name)
  ELSE IF t.k = "end" THEN
    IF open # <<>> /\ Last(open) = t.name THEN Front(open) ELSE <<"!">>
  ELSE open
OpenTags(html) == FoldAll(OpenTagsItem, <<>>, html)
\* the text that a browser shows for the output of write_text: <br/> and
\* its newline are a newline, an entity is its character
E_amp == <<Chr("&"), Chr("a"), Chr("m"), Chr("p"), Chr(";")>>
E_gt == <<Chr("&"), Chr("g"), Chr("t"), Chr(";")>>
E_lt == <<Chr("&"), Chr("l"), Chr("t"), Chr(";")>>
E_tab == <<Chr("&"), Chr("#"), Chr("0"), Chr("9"), Chr(";")>>
E_nbsp == <<Chr("&"), Chr("n"), Chr("b"), Chr("s"), Chr("p"), Chr(";")>>
E_br == <<StartEndTag("br", <<>>), Chr("\n")>>
RECURSIVE ShownText(_)
ShownText(html) ==
  LET is(p, c) == IF StartsWith(html, p)
                  THEN <<c>> \o ShownText(SubSeq(html, Len(p) + 1, Len(html)))
                  ELSE <<>>
  IN IF html = <<>> THEN <<>>
     ELSE IF StartsWith(html, E_amp) THEN is(E_amp, "&")
     ELSE IF StartsWith(html, E_gt) THEN is(E_gt, ">")
     ELSE IF StartsWith(html, E_lt) THEN is(E_lt, "<")
     ELSE IF StartsWith(html, E_tab) THEN is(E_tab, "\t")
     ELSE IF StartsWith(html, E_nbsp) THEN is(E_nbsp, " ")
     ELSE IF StartsWith(html, E_br) THEN is(E_br, "\n")
     ELSE IF Head(html).k = "chr" THEN Head(html).s \o ShownText(Tail(html))
     ELSE <<"!">> \o ShownText(Tail(html))
\* C28: when write returns, what it wrote for every element of the tree is
\* an opening and a closing tag of the same html element (b, i, u, nobr,
\* span, div, ol, li) or nothing at all, so that every closing tag of the
\* output closes the innermost open tag and no tag is left open; no text
\* node puts a '<' or a '>' into the output, and the output of a text node
\* shows as the text of the node, every '&' of it written as &amp; once.
C28_WellFormed ==
  (rt.stage = "written" /\ rt.err = "") =>
    LET d == prepare_dom_write(WrittenDom)
        nodes == Subtree(d, Root)
    IN /\ \A n \in nodes : IsTagDom(d, n) => TagPairMatches(d, n)
       /\ OpenTags(rt.html) = <<>>
       /\ \A i \in 1..Len(rt.html) : rt.html[i] \notin {Chr("<"), Chr(">")}
       /\ \A n \in nodes :
            IsTextDom(d, n) =>
              /\ ShownText(write_text(d[n].text)) = d[n].text
              /\ Cardinality({i \in 1..Len(write_text(d[n].text)) :
                                StartsWith(SubSeq(write_text(d[n].text), i,
                                                  Len(write_text(d[n].text))), E_amp)})
                   = Cardinality({i \in 1..Len(d[n].text) : d[n].text[i] = "&"})

\* ------------------------------------- claims on the windows of an extension
\* the windows that have the extension's ui are the registered windows while
\* the extension is enabled, and none while it is disabled
UiFollowsEnabled(obj) ==
  obj.uis = (IF is_enabled(obj) THEN obj.windows ELSE {})
\* a call that returns adds the ui only to a window that has none and
\* removes it only from a window that has it
UiCallsAlternate ==
  ext'.out.raised = "" =>
    \A w \in Windows :
      /\ WindowCall("on_add_ui", w) \in ext'.out.calls => w \notin ext.out.obj.uis
      /\ WindowCall("on_remove_ui", w) \in ext'.out.calls => w \in ext.out.obj.uis
\* C29: after any sequence of calls of enable, on_new_window and
\* on_close_window that return, the windows with the ui installed are the
\* registered windows when the extension is enabled and none when it is
\* disabled; and for each window on_add_ui and on_remove_ui alternate,
\* on_add_ui first: the ui is never added to a window that has it and never
\* removed from a window that has none.
C29_UiFollowsWindows ==
  /\ [](UiFollowsEnabled(ext.out.obj))
  /\ [][UiCallsAlternate]_vars

====
